---- MODULE Spec2Model ----
(***************************************************************************)
(* Model of the rosecrypt dungeon generator                                *)
(* (src/rosecrypt/generation/dungeon_generator.py and the element classes  *)
(* it uses).  One behaviour is one call of                                 *)
(* DungeonGenerator.generate_dungeon(width, height); every draw from the   *)
(* seeded random generator is a nondeterministic choice.                   *)
(***************************************************************************)
EXTENDS Integers, Sequences, FiniteSets, TLC

(***************************************************************************)
(* Bounds of the model.  The generator reads min_room_size, max_room_size  *)
(* and max_depth from its settings object and width/height from its        *)
(* arguments; the model runs it on small inputs.                           *)
(***************************************************************************)
Width == 7

Height == 7

MinRoomSize == 2

MaxRoomSize == 3

\* number of iterations of the placement loop, range(max_depth * 10)
MaxAttempts == 3

\* GenerationSettings.margin
Margin == 1

\* the requested dungeon sizes: the degenerate 1x1 dungeon and the bounded one
DungeonSizes == {<<1, 1>>, <<Width, Height>>}

(***************************************************************************)
(* rosecrypt.enums.Direction, in declaration order                          *)
(***************************************************************************)
Direction == <<"up", "down", "left", "right">>

Directions == {Direction[i] : i \in 1..Len(Direction)}

move_cell_in_direction(cell, direction) ==
    CASE direction = "up" -> <<cell[1], cell[2] - 1>>
      [] direction = "down" -> <<cell[1], cell[2] + 1>>
      [] direction = "left" -> <<cell[1] - 1, cell[2]>>
      [] direction = "right" -> <<cell[1] + 1, cell[2]>>

get_opposite(direction) ==
    CASE direction = "up" -> "down"
      [] direction = "down" -> "up"
      [] direction = "left" -> "right"
      [] direction = "right" -> "left"

(***************************************************************************)
(* Small arithmetic helpers                                                *)
(***************************************************************************)
Abs(n) == IF n < 0 THEN -n ELSE n

Min(a, b) == IF a < b THEN a ELSE b

Max(a, b) == IF a > b THEN a ELSE b

\* the elements of a finite set of integers in ascending order (the order in
\* which CPython iterates a set of small non-negative integers)
RECURSIVE SortedSeq(_)
SortedSeq(S) ==
    IF S = {} THEN <<>>
    ELSE LET m == CHOOSE x \in S : \A y \in S : x <= y
         IN <<m>> \o SortedSeq(S \ {m})

\* random.Random.randint(a, b) raises ValueError on an empty range
RandintRaises(a, b) == b < a

(***************************************************************************)
(* Room (generation/elements/room.py)                                      *)
(***************************************************************************)
\* Room without the __post_init__ step that adds the room's own id
Room_without_own_id(id, x1, y1, x2, y2) ==
    [id |-> id, x1 |-> x1, y1 |-> y1, x2 |-> x2, y2 |-> y2,
     room_type |-> "none", connections |-> {}]

\* Room(id, x1, y1, x2, y2): __post_init__ puts the room's own id into its
\* connections and clears room_type
Room(id, x1, y1, x2, y2) ==
    [id |-> id, x1 |-> x1, y1 |-> y1, x2 |-> x2, y2 |-> y2,
     room_type |-> "none", connections |-> {id}]

intersects(self, other) ==
    ~(self.x2 <= other.x1 \/ self.x1 >= other.x2
      \/ self.y2 <= other.y1 \/ self.y1 >= other.y2)

intersects_no_buffer(self, other, buffer) == intersects(self, other)

intersects_with_buffer(self, other, buffer) ==
    LET expanded == Room(self.id, self.x1 - buffer, self.y1 - buffer,
                         self.x2 + buffer, self.y2 + buffer)
    IN intersects(expanded, other)

center(self) == <<(self.x1 + self.x2) \div 2, (self.y1 + self.y2) \div 2>>

contains_point(self, point, margin) ==
    /\ self.x1 - margin <= point[1] /\ point[1] < self.x2 + margin
    /\ self.y1 - margin <= point[2] /\ point[2] < self.y2 + margin

edge_in_direction(self, direction) ==
    CASE direction = "left" ->
           [k \in 1..(self.y2 - self.y1) |-> <<self.x1, self.y1 + k - 1>>]
      [] direction = "right" ->
           [k \in 1..(self.y2 - self.y1) |-> <<self.x2 - 1, self.y1 + k - 1>>]
      [] direction = "up" ->
           [k \in 1..(self.x2 - self.x1) |-> <<self.x1 + k - 1, self.y1>>]
      [] direction = "down" ->
           [k \in 1..(self.x2 - self.x1) |-> <<self.x1 + k - 1, self.y2 - 1>>]

\* index in the room list of the room with the given id (room_lookup)
IndexOfId(all_rooms, id) == CHOOSE k \in 1..Len(all_rooms) : all_rooms[k].id = id

RoomIds(all_rooms) == {all_rooms[k].id : k \in 1..Len(all_rooms)}

\* Room.get_connected_room_ids_by_extension: breadth-first search with an
\* explicit queue of rooms (held here as ids); a set is iterated in ascending
\* order
RECURSIVE bfs(_, _, _)
bfs(visited, queue, all_rooms) ==
    IF queue = <<>> THEN visited
    ELSE LET cur == Head(queue)
             rest == Tail(queue)
         IN IF cur.id \in visited THEN bfs(visited, rest, all_rooms)
            ELSE LET v2 == visited \cup {cur.id}
                     new == {c \in cur.connections :
                                c \notin v2 /\ c \in RoomIds(all_rooms)}
                     app == [k \in 1..Cardinality(new) |->
                                all_rooms[IndexOfId(all_rooms, SortedSeq(new)[k])]]
                 IN bfs(v2, rest \o app, all_rooms)

get_connected_room_ids_by_extension(self, all_rooms) ==
    bfs({}, <<self>>, all_rooms)

\* add_connection that records the connection on one side only
add_connection_one_way(all_rooms, i, j) ==
    [k \in 1..Len(all_rooms) |->
        IF k = i
        THEN [all_rooms[k] EXCEPT !.connections = @ \cup {all_rooms[j].id}]
        ELSE all_rooms[k]]

\* Room.add_connection applied to the rooms at positions i and j of the list
add_connection(all_rooms, i, j) ==
    [k \in 1..Len(all_rooms) |->
        IF k = i /\ k = j
        THEN [all_rooms[k] EXCEPT !.connections = @ \cup {all_rooms[k].id}]
        ELSE IF k = i
        THEN [all_rooms[k] EXCEPT !.connections = @ \cup {all_rooms[j].id}]
        ELSE IF k = j
        THEN [all_rooms[k] EXCEPT !.connections = @ \cup {all_rooms[i].id}]
        ELSE all_rooms[k]]

(***************************************************************************)
(* Path and Hallway (generation/elements/path.py, hallway.py)              *)
(***************************************************************************)
Path(x1, y1, x2, y2) == [x1 |-> x1, y1 |-> y1, x2 |-> x2, y2 |-> y2]

\* a Hallway is the sequence of its segments
Hallway(segments) == segments

\* the value None returned by the connection functions
None == <<>>

is_one_cell_path(self) ==
    Max(Abs(self.x2 - self.x1), Abs(self.y2 - self.y1)) = 0

get_direction(self) ==
    IF is_one_cell_path(self) THEN "none"
    ELSE IF self.x1 = self.x2
         THEN (IF self.y1 > self.y2 THEN "up" ELSE "down")
         ELSE (IF self.x1 > self.x2 THEN "left" ELSE "right")

on_segment(p, q, r) ==
    /\ Min(p[1], r[1]) <= q[1] /\ q[1] <= Max(p[1], r[1])
    /\ Min(p[2], r[2]) <= q[2] /\ q[2] <= Max(p[2], r[2])

orientation(p, q, r) ==
    LET val == (q[2] - p[2]) * (r[1] - q[1]) - (q[1] - p[1]) * (r[2] - q[2])
    IN IF val = 0 THEN 0 ELSE IF val > 0 THEN 1 ELSE 2

\* paths_intersect_path without the tests for collinear points
paths_intersect_path_proper_crossing(self, other) ==
    LET p1 == <<self.x1, self.y1>>
        q1 == <<self.x2, self.y2>>
        p2 == <<other.x1, other.y1>>
        q2 == <<other.x2, other.y2>>
    IN /\ orientation(p1, q1, p2) # orientation(p1, q1, q2)
       /\ orientation(p2, q2, p1) # orientation(p2, q2, q1)

paths_intersect_path(self, other) ==
    LET p1 == <<self.x1, self.y1>>
        q1 == <<self.x2, self.y2>>
        p2 == <<other.x1, other.y1>>
        q2 == <<other.x2, other.y2>>
        o1 == orientation(p1, q1, p2)
        o2 == orientation(p1, q1, q2)
        o3 == orientation(p2, q2, p1)
        o4 == orientation(p2, q2, q1)
    IN \/ (o1 # o2 /\ o3 # o4)
       \/ (o1 = 0 /\ on_segment(p1, p2, q1))
       \/ (o2 = 0 /\ on_segment(p1, q2, q1))
       \/ (o3 = 0 /\ on_segment(p2, p1, q2))
       \/ (o4 = 0 /\ on_segment(p2, q1, q2))

\* Path.get_line_points of an axis-aligned path, as a set of tiles (it raises
\* ValueError for a path that is not axis-aligned)
get_line_points(self) ==
    IF is_one_cell_path(self) THEN {<<self.x1, self.y1>>}
    ELSE IF self.x1 = self.x2
    THEN {<<self.x1, y>> : y \in Min(self.y1, self.y2)..Max(self.y1, self.y2)}
    ELSE {<<x, self.y1>> : x \in Min(self.x1, self.x2)..Max(self.x1, self.x2)}

path_intersects_room(self, room, buffer) ==
    LET x1 == room.x1 - buffer
        y1 == room.y1 - buffer
        x2 == room.x2 + buffer
        y2 == room.y2 + buffer
        px_min == Min(self.x1, self.x2)
        px_max == Max(self.x1, self.x2)
        py_min == Min(self.y1, self.y2)
        py_max == Max(self.y1, self.y2)
    IN ~(px_max < x1 \/ px_min >= x2 \/ py_max < y1 \/ py_min >= y2)

(***************************************************************************)
(* Dungeon grid (dungeon.py): grid[y][x], 1 = floor, 0 = void              *)
(***************************************************************************)
\* Dungeon.__init__ building one row too many
NewGrid_extra_row(w, h) == [y \in 0..h |-> [x \in 0..(w - 1) |-> 0]]

NewGrid(w, h) == [y \in 0..(h - 1) |-> [x \in 0..(w - 1) |-> 0]]

GridHeight(g) == Cardinality(DOMAIN g)

GridWidth(g) == IF DOMAIN g = {} THEN 0 ELSE Cardinality(DOMAIN g[0])

InGrid(g, x, y) ==
    0 <= x /\ x < GridWidth(g) /\ 0 <= y /\ y < GridHeight(g)

\* carve_tile without the lower bounds of its range test: a negative index
\* counts from the end of the list
carve_tile_wrapping(g, x, y) ==
    LET xx == IF x < 0 THEN GridWidth(g) + x ELSE x
        yy == IF y < 0 THEN GridHeight(g) + y ELSE y
    IN IF InGrid(g, xx, yy) THEN [g EXCEPT ![yy][xx] = 1] ELSE g

carve_tile(g, x, y) ==
    IF InGrid(g, x, y) THEN [g EXCEPT ![y][x] = 1] ELSE g

carve_room(g, x1, y1, x2, y2) ==
    [y \in DOMAIN g |-> [x \in DOMAIN g[y] |->
        IF y1 <= y /\ y < y2 /\ x1 <= x /\ x < x2 THEN 1 ELSE g[y][x]]]

\* "for y in range(start, end + 1): self.carve_tile(x1, y)"
RECURSIVE carve_tiles(_, _)
carve_tiles(g, tiles) ==
    IF tiles = {} THEN g
    ELSE LET t == CHOOSE t \in tiles : TRUE
         IN carve_tiles(carve_tile(g, t[1], t[2]), tiles \ {t})

\* carve_line raises ValueError for a line that is neither vertical nor
\* horizontal
carve_line_raises(x1, y1, x2, y2) == x1 # x2 /\ y1 # y2

\* carve_line of a vertical or horizontal line
carve_line(g, x1, y1, x2, y2) ==
    IF x1 = x2
    THEN carve_tiles(g, {x1} \X (Min(y1, y2)..Max(y1, y2)))
    ELSE carve_tiles(g, (Min(x1, x2)..Max(x1, x2)) \X {y1})

IsFloor(g, x, y) == InGrid(g, x, y) /\ g[y][x] = 1

(***************************************************************************)
(* DungeonGenerator helpers (generation/dungeon_generator.py)              *)
(***************************************************************************)
manhattan_distance(a, b) == Abs(a[1] - b[1]) + Abs(a[2] - b[2])

ranges_overlap(a1, a2, b1, b2) == Max(a1, b1) < Min(a2, b2)

\* can_connect that accepts end points on the last column and the last row
can_connect_to_the_border(all_rooms, halls, w, h, path, buffer, rooms_to_ignore, ignore_bounds) ==
    /\ \A k \in 1..Len(all_rooms) :
          all_rooms[k] \notin rooms_to_ignore
             => ~path_intersects_room(path, all_rooms[k], buffer)
    /\ \A i \in 1..Len(halls) : \A j \in 1..Len(halls[i]) :
          ~paths_intersect_path(path, halls[i][j])
    /\ ignore_bounds
         \/ (/\ 1 <= path.x1 /\ path.x1 <= w - 1
             /\ 1 <= path.x2 /\ path.x2 <= w - 1
             /\ 1 <= path.y1 /\ path.y1 <= h - 1
             /\ 1 <= path.y2 /\ path.y2 <= h - 1)

\* __can_connect(dungeon, path, buffer, rooms_to_ignore, ignore_bounds) for a
\* dungeon of size w x h, the room list all_rooms and the hallway list halls
\* (self.hallways)
can_connect(all_rooms, halls, w, h, path, buffer, rooms_to_ignore, ignore_bounds) ==
    /\ \A k \in 1..Len(all_rooms) :
          all_rooms[k] \notin rooms_to_ignore
             => ~path_intersects_room(path, all_rooms[k], buffer)
    /\ \A i \in 1..Len(halls) : \A j \in 1..Len(halls[i]) :
          ~paths_intersect_path(path, halls[i][j])
    /\ ignore_bounds
         \/ (/\ 1 <= path.x1 /\ path.x1 < w - 1
             /\ 1 <= path.x2 /\ path.x2 < w - 1
             /\ 1 <= path.y1 /\ path.y1 < h - 1
             /\ 1 <= path.y2 /\ path.y2 < h - 1)

\* _connect_adjacent_rooms: the paths it can choose (one per value of the
\* random coordinate); the empty set when it returns None
connect_adjacent_rooms(r1, r2) ==
    IF ranges_overlap(r1.y1, r1.y2, r2.y1, r2.y2)
    THEN LET y_start == Max(r1.y1, r2.y1)
             y_end == Min(r1.y2, r2.y2)
         IN IF r2.x2 + 1 = r1.x1
            THEN {Path(r2.x2, y, r2.x2, y) : y \in y_start..(y_end - 1)}
            ELSE IF r2.x2 + 2 = r1.x1
            THEN {Path(r2.x2, y, r2.x2 + 1, y) : y \in y_start..(y_end - 1)}
            ELSE IF r1.x2 + 1 = r2.x1
            THEN {Path(r1.x2, y, r1.x2, y) : y \in y_start..(y_end - 1)}
            ELSE IF r1.x2 + 2 = r2.x1
            THEN {Path(r1.x2, y, r1.x2 + 1, y) : y \in y_start..(y_end - 1)}
            ELSE {}
    ELSE IF ranges_overlap(r1.x1, r1.x2, r2.x1, r2.x2)
    THEN LET x_start == Max(r1.x1, r2.x1)
             x_end == Min(r1.x2, r2.x2)
         IN IF r2.y2 + 1 = r1.y1
            THEN {Path(x, r2.y2, x, r2.y2) : x \in x_start..(x_end - 1)}
            ELSE IF r2.y2 + 2 = r1.y1
            THEN {Path(x, r2.y2, x, r2.y2 + 1) : x \in x_start..(x_end - 1)}
            ELSE IF r1.y2 + 1 = r2.y1
            THEN {Path(x, r1.y2, x, r1.y2) : x \in x_start..(x_end - 1)}
            ELSE IF r1.y2 + 2 = r2.y1
            THEN {Path(x, r1.y2, x, r1.y2 + 1) : x \in x_start..(x_end - 1)}
            ELSE {}
    ELSE {}

\* carve_hallway that carves the segments longer than one tile only
RECURSIVE carve_hallway_lines_only(_, _)
carve_hallway_lines_only(g, hallway) ==
    IF hallway = <<>> THEN g
    ELSE LET p == Head(hallway)
         IN carve_hallway_lines_only(
               IF is_one_cell_path(p) THEN g
               ELSE carve_line(g, p.x1, p.y1, p.x2, p.y2),
               Tail(hallway))

\* the carving loop at the end of _connect_tiles (and the single carve of
\* _connect_adjacent_rooms): every segment of the hallway, in order
RECURSIVE carve_hallway(_, _)
carve_hallway(g, hallway) ==
    IF hallway = <<>> THEN g
    ELSE LET p == Head(hallway)
         IN carve_hallway(
               IF is_one_cell_path(p) THEN carve_tile(g, p.x1, p.y1)
               ELSE carve_line(g, p.x1, p.y1, p.x2, p.y2),
               Tail(hallway))

\* l_shape_legs with a first leg that stays on its starting tile
l_shape_legs_no_first_leg(a2, b2, direction_a, bit) ==
    LET ax2 == a2[1]
        ay2 == a2[2]
        bx2 == b2[1]
        by2 == b2[2]
        vertical_first == Path(ax2, ay2, ax2, by2)
    IN IF bit = 1 \/ get_direction(vertical_first) = get_opposite(direction_a)
       THEN <<Path(ax2, ay2, ax2, ay2),
              Path(bx2, by2, bx2, IF ay2 > by2 THEN ay2 - 1 ELSE ay2 + 1)>>
       ELSE <<Path(ax2, ay2, ax2, ay2),
              Path(bx2, by2, IF ax2 > bx2 THEN ax2 - 1 ELSE ax2 + 1, by2)>>

\* the two legs of the L-shaped route of _connect_tiles from a2 to b2, for
\* one value of the random bit
l_shape_legs(a2, b2, direction_a, bit) ==
    LET ax2 == a2[1]
        ay2 == a2[2]
        bx2 == b2[1]
        by2 == b2[2]
        vertical_first == Path(ax2, ay2, ax2, by2)
    IN IF bit = 1 \/ get_direction(vertical_first) = get_opposite(direction_a)
       THEN <<Path(ax2, ay2, bx2, ay2),
              Path(bx2, by2, bx2, IF ay2 > by2 THEN ay2 - 1 ELSE ay2 + 1)>>
       ELSE <<vertical_first,
              Path(bx2, by2, IF ax2 > bx2 THEN ax2 - 1 ELSE ax2 + 1, by2)>>

\* "hallway = Hallway([Path(ax, ay, ax, ay)]);
\* hallway.segments.append(Path(bx, by, bx, by))": the two 1-tile stubs
stub_segments_first_only(a, b) == <<Path(a[1], a[2], a[1], a[2])>>

stub_segments(a, b) ==
    <<Path(a[1], a[2], a[1], a[2]), Path(b[1], b[2], b[1], b[2])>>

\* _connect_tiles, the segments of the hallway it builds for one value of the
\* random bit: the single straight path when a and b share a coordinate, else
\* the two stubs followed by the straight path from a2 to b2 or by the two
\* legs of the L
route_segments(a, b, direction_a, direction_b, bit) ==
    IF a[1] = b[1] \/ a[2] = b[2]
    THEN <<Path(a[1], a[2], b[1], b[2])>>
    ELSE LET a2 == move_cell_in_direction(a, direction_a)
             b2 == move_cell_in_direction(b, direction_b)
         IN stub_segments(a, b) \o
            (IF a2[1] = b2[1] \/ a2[2] = b2[2]
             THEN <<Path(a2[1], a2[2], b2[1], b2[2])>>
             ELSE l_shape_legs(a2, b2, direction_a, bit))

\* the segments that _connect_tiles passes to __can_connect, in order: every
\* segment but the stubs
route_legs(a, b, direction_a, direction_b, bit) ==
    LET segments == route_segments(a, b, direction_a, direction_b, bit)
    IN IF a[1] = b[1] \/ a[2] = b[2] THEN segments
       ELSE SubSeq(segments, 3, Len(segments))

\* route_checks calling __can_connect(dungeon, leg, 0): no buffer around the
\* rooms
route_checks_no_buffer(all_rooms, halls, w, h, legs) ==
    [k \in 1..Len(legs) |->
        can_connect(all_rooms, halls, w, h, legs[k], 0, {}, FALSE)]

\* route_checks that skips the validation of the first leg
route_checks_first_leg_unchecked(all_rooms, halls, w, h, legs) ==
    [k \in 1..Len(legs) |->
        k = 1 \/ can_connect(all_rooms, halls, w, h, legs[k], 1, {}, FALSE)]

\* what __can_connect(dungeon, leg, 1) answers for each leg
route_checks(all_rooms, halls, w, h, legs) ==
    [k \in 1..Len(legs) |->
        can_connect(all_rooms, halls, w, h, legs[k], 1, {}, FALSE)]

\* "success": every leg validated
route_success(checks) == \A k \in 1..Len(checks) : checks[k]

\* route_carving that carves each leg as soon as that leg has validated
route_carving_leg_by_leg(g, segments, checks) ==
    IF route_success(checks) THEN carve_hallway(g, segments)
    ELSE LET legs == SubSeq(segments, Len(segments) - Len(checks) + 1,
                            Len(segments))
             passed == {k \in 1..Len(checks) : \A i \in 1..k : checks[i]}
         IN carve_hallway(g, SubSeq(legs, 1, Cardinality(passed)))

\* the grid _connect_tiles leaves: the segments are carved "if success", after
\* the last validation, and nothing is carved otherwise
route_carving(g, segments, checks) ==
    IF route_success(checks) THEN carve_hallway(g, segments) ELSE g

\* _connect_tiles: the hallways it can return (None when validation fails),
\* one per value of the random bit
connect_tiles(all_rooms, halls, w, h, a, b, direction_a, direction_b) ==
    {LET segments == route_segments(a, b, direction_a, direction_b, bit)
         checks == route_checks(all_rooms, halls, w, h,
                                route_legs(a, b, direction_a, direction_b, bit))
     IN IF route_success(checks) THEN Hallway(segments) ELSE None
     : bit \in {0, 1}}

(***************************************************************************)
(* _connect_rooms: choice of the exit directions                           *)
(***************************************************************************)
\* the cells visited by the scan "for d in Direction: for cell_r1 in
\* r1.edge_in_direction(d): ...; for cell_r2 in r2.edge_in_direction(d): ..."
\* in visiting order
RECURSIVE edge_scan(_, _, _)
edge_scan(r1, r2, k) ==
    IF k > Len(Direction) THEN <<>>
    ELSE LET d == Direction[k]
             e1 == edge_in_direction(r1, d)
             e2 == edge_in_direction(r2, d)
         IN [i \in 1..Len(e1) |-> [room |-> 1, d |-> d, cell |-> e1[i]]]
            \o [i \in 1..Len(e2) |-> [room |-> 2, d |-> d, cell |-> e2[i]]]
            \o edge_scan(r1, r2, k + 1)

\* the local variables of the scan before its first iteration; "unbound" is a
\* local that has not been assigned, inf is closest_distance = float("inf")
scan_start(is_maze) ==
    [inf |-> ~is_maze, distance |-> 0, cell_r1 |-> "unbound",
     direction_r1 |-> "unbound", direction_r2 |-> "unbound", raised |-> FALSE]

\* one iteration of the scan: straight mode keeps strictly smaller distances,
\* maze mode strictly larger ones; both rooms share the one distance variable
scan_step(is_maze, st, item, nearest_center) ==
    IF item.room = 1
    THEN LET distance == manhattan_distance(item.cell, nearest_center)
         IN IF (IF is_maze THEN distance > st.distance
                ELSE st.inf \/ distance < st.distance)
            THEN [st EXCEPT !.inf = FALSE, !.distance = distance,
                            !.cell_r1 = item.cell, !.direction_r1 = item.d]
            ELSE st
    ELSE IF st.cell_r1 = "unbound" THEN [st EXCEPT !.raised = TRUE]
    ELSE LET distance == manhattan_distance(st.cell_r1, item.cell)
         IN IF (IF is_maze THEN distance > st.distance
                ELSE st.inf \/ distance < st.distance)
            THEN [st EXCEPT !.inf = FALSE, !.distance = distance,
                            !.direction_r2 = item.d]
            ELSE st

RECURSIVE scan_fold(_, _, _, _)
scan_fold(is_maze, st, items, nearest_center) ==
    IF items = <<>> THEN st
    ELSE scan_fold(is_maze, scan_step(is_maze, st, Head(items), nearest_center),
                   Tail(items), nearest_center)

\* closest_direction_r1/r2 in straight mode, furthest_direction_r1/r2 in maze
\* mode, as left by the scan
scan_directions(is_maze, r1, r2) ==
    scan_fold(is_maze, scan_start(is_maze), edge_scan(r1, r2, 1), center(r2))

\* _connect_rooms raises UnboundLocalError when it reads a direction that the
\* scan never assigned
connect_rooms_raises(is_maze, r1, r2) ==
    LET st == scan_directions(is_maze, r1, r2)
    IN st.raised \/ st.direction_r1 = "unbound" \/ st.direction_r2 = "unbound"

\* exit_directions drawing from the whole of list(Direction)
exit_directions_any(is_maze, r1, r2) ==
    LET st == scan_directions(is_maze, r1, r2)
    IN IF is_maze
       THEN Directions \X Directions
       ELSE {<<st.direction_r1, st.direction_r2>>}

\* the pairs (direction_r1, direction_r2) an outer iteration of the search can
\* use: fixed in straight mode, drawn from list(Direction) minus the furthest
\* direction in maze mode
exit_directions(is_maze, r1, r2) ==
    LET st == scan_directions(is_maze, r1, r2)
    IN IF is_maze
       THEN (Directions \ {st.direction_r1}) \X (Directions \ {st.direction_r2})
       ELSE {<<st.direction_r1, st.direction_r2>>}

SeqRange(s) == {s[i] : i \in 1..Len(s)}

\* the results of the calls of _connect_tiles that the search loop of
\* _connect_rooms can make: one per exit directions, edge cells and random bit
connect_attempts(is_maze, all_rooms, halls, w, h, r1, r2) ==
    UNION {UNION {UNION {
        connect_tiles(all_rooms, halls, w, h,
                      move_cell_in_direction(e1, dd[1]),
                      move_cell_in_direction(e2, dd[2]), dd[1], dd[2])
        : e2 \in SeqRange(edge_in_direction(r2, dd[2]))}
        : e1 \in SeqRange(edge_in_direction(r1, dd[1]))}
        : dd \in exit_directions(is_maze, r1, r2)}

\* _connect_rooms: the values it can return.  A failed attempt changes no
\* state, so the search returns the hallway of its first successful attempt,
\* which can be any successful attempt; it returns None when an attempt has
\* failed and the inner loop then draws only edge cells already tried.
connect_rooms(is_maze, all_rooms, halls, w, h, r1, r2) ==
    connect_attempts(is_maze, all_rooms, halls, w, h, r1, r2)

(***************************************************************************)
(* _place_hallways: helpers of the main connection loop                    *)
(***************************************************************************)
\* the room list is indexed from 0 in the source
RoomAt(all_rooms, i) == all_rooms[i + 1]

\* "for i in remaining: if dist < nearest_dist": the first room at minimal
\* distance in iteration order
nearest_room(all_rooms, cur, rem) ==
    LET dist(i) == manhattan_distance(center(RoomAt(all_rooms, cur)),
                                      center(RoomAt(all_rooms, i)))
    IN CHOOSE i \in rem : \A j \in rem :
          dist(i) < dist(j) \/ (dist(i) = dist(j) /\ i <= j)

\* sorted(connected, key=distance to the nearest room's center): a stable sort
\* of the set's iteration order
RECURSIVE sorted_by_distance(_, _, _)
sorted_by_distance(all_rooms, S, target) ==
    IF S = {} THEN <<>>
    ELSE LET dist(i) == manhattan_distance(center(RoomAt(all_rooms, target)),
                                           center(RoomAt(all_rooms, i)))
             m == CHOOSE i \in S : \A j \in S :
                     dist(i) < dist(j) \/ (dist(i) = dist(j) /\ i <= j)
         IN <<m>> \o sorted_by_distance(all_rooms, S \ {m}, target)

\* the fallback "for alt in sorted(connected, ...)" of the main loop, from the
\* k-th candidate on: the ways it can end.  The adjacent attempt is made
\* between nearest and alt, the routed attempt between current and alt.
RECURSIVE fallback(_, _, _, _, _, _, _, _, _)
fallback(is_maze, all_rooms, halls, w, h, cur, nearest, alts, k) ==
    IF k > Len(alts) THEN {[kind |-> "exhausted"]}
    ELSE LET alt == alts[k]
             adjacent == connect_adjacent_rooms(RoomAt(all_rooms, nearest),
                                                RoomAt(all_rooms, alt))
             routed == connect_rooms(is_maze, all_rooms, halls, w, h,
                                     RoomAt(all_rooms, cur), RoomAt(all_rooms, alt))
         IN IF adjacent # {}
            THEN {[kind |-> "connected", via |-> "fallback",
                   hallway |-> Hallway(<<p>>),
                   r1 |-> nearest, r2 |-> alt] : p \in adjacent}
            ELSE IF connect_rooms_raises(is_maze, RoomAt(all_rooms, cur),
                                         RoomAt(all_rooms, alt))
            THEN {[kind |-> "raised"]}
            ELSE {[kind |-> "connected", via |-> "fallback",
                   hallway |-> hw, r1 |-> cur, r2 |-> alt]
                    : hw \in routed \ {None}}
                 \cup (IF None \in routed
                       THEN fallback(is_maze, all_rooms, halls, w, h, cur,
                                     nearest, alts, k + 1)
                       ELSE {})

\* one iteration of "while remaining": the ways it can end
connect_next(is_maze, all_rooms, halls, w, h, cur, nearest, conn) ==
    LET adjacent == connect_adjacent_rooms(RoomAt(all_rooms, cur),
                                           RoomAt(all_rooms, nearest))
        routed == connect_rooms(is_maze, all_rooms, halls, w, h,
                                RoomAt(all_rooms, cur), RoomAt(all_rooms, nearest))
    IN IF adjacent # {}
       THEN {[kind |-> "connected", via |-> "direct",
              hallway |-> Hallway(<<p>>),
              r1 |-> cur, r2 |-> nearest] : p \in adjacent}
       ELSE IF connect_rooms_raises(is_maze, RoomAt(all_rooms, cur),
                                    RoomAt(all_rooms, nearest))
       THEN {[kind |-> "raised"]}
       ELSE {[kind |-> "connected", via |-> "direct",
              hallway |-> hw, r1 |-> cur, r2 |-> nearest]
               : hw \in routed \ {None}}
            \cup (IF None \in routed
                  THEN fallback(is_maze, all_rooms, halls, w, h, cur, nearest,
                                sorted_by_distance(all_rooms, conn, nearest), 1)
                  ELSE {})

(***************************************************************************)
(* _connect_room_to_map_edge                                               *)
(***************************************************************************)
\* the direction after the random draw and the tag tests; the empty set when
\* the STAIRS tag makes the function return before the loop
entrance_directions(tag) ==
    CASE tag = "north" -> {"up"}
      [] tag = "south" -> {"down"}
      [] tag = "west" -> {"left"}
      [] tag = "east" -> {"right"}
      [] tag = "stairs" -> {}
      [] OTHER -> Directions

\* entrance_candidates with paths that stop one tile before the map boundary
entrance_candidates_short(room, direction, w, h) ==
    CASE direction = "up" ->
           {Path(x, room.y1 - 1, x, 1) : x \in room.x1..(room.x2 - 1)}
      [] direction = "down" ->
           {Path(x, (room.y2 - 1) + 1, x, h - 2) : x \in room.x1..(room.x2 - 1)}
      [] direction = "left" ->
           {Path(room.x1 - 1, y, 1, y) : y \in room.y1..(room.y2 - 1)}
      [] direction = "right" ->
           {Path((room.x2 - 1) + 1, y, w - 2, y) : y \in room.y1..(room.y2 - 1)}

\* the candidate paths of a room: one per tile of its edge in the direction
entrance_candidates(room, direction, w, h) ==
    CASE direction = "up" ->
           {Path(x, room.y1 - 1, x, 0) : x \in room.x1..(room.x2 - 1)}
      [] direction = "down" ->
           {Path(x, (room.y2 - 1) + 1, x, h - 1) : x \in room.x1..(room.x2 - 1)}
      [] direction = "left" ->
           {Path(room.x1 - 1, y, 0, y) : y \in room.y1..(room.y2 - 1)}
      [] direction = "right" ->
           {Path((room.x2 - 1) + 1, y, w - 1, y) : y \in room.y1..(room.y2 - 1)}

\* rooms_to_ignore=List[room]: the argument is a typing alias, not a list
\* holding the room; "room not in rooms_to_ignore" is true of every room, so
\* no room is ignored
rooms_to_ignore_alias(room) == {}

\* "for room in self.rooms" from the k-th room on: the ways it can end
RECURSIVE connect_room_to_map_edge(_, _, _, _, _, _)
connect_room_to_map_edge(all_rooms, halls, w, h, direction, k) ==
    IF k > Len(all_rooms) THEN {[kind |-> "no_entrance"]}
    ELSE LET room == all_rooms[k]
             cands == entrance_candidates(room, direction, w, h)
             valid == {c \in cands :
                         can_connect(all_rooms, halls, w, h, c, 0,
                                     rooms_to_ignore_alias(room), TRUE)}
         IN {[kind |-> "entrance", room |-> k, candidate |-> c] : c \in valid}
            \cup (IF valid # cands
                  THEN connect_room_to_map_edge(all_rooms, halls, w, h,
                                                direction, k + 1)
                  ELSE {})

(***************************************************************************)
(* __check_all_rooms_connected and _place_missing_hallways                 *)
(***************************************************************************)
check_all_rooms_connected(all_rooms) ==
    get_connected_room_ids_by_extension(all_rooms[1], all_rooms) = RoomIds(all_rooms)

\* update_connected_ids that leaves the set as it was
update_connected_ids_skipped(connected_ids, room, all_rooms) == connected_ids

\* "connected_ids.update(room.get_connected_room_ids_by_extension(self.rooms))"
update_connected_ids(connected_ids, room, all_rooms) ==
    connected_ids \cup get_connected_room_ids_by_extension(room, all_rooms)

\* "for other in self.rooms: if other.id in connected_ids: if dist <
\* shortest_dist": position of the first room at minimal distance
closest_connected(all_rooms, r, connected_ids) ==
    LET cand == {k \in 1..Len(all_rooms) : all_rooms[k].id \in connected_ids}
        dist(k) == manhattan_distance(center(all_rooms[r]), center(all_rooms[k]))
    IN CHOOSE k \in cand : \A j \in cand :
          dist(k) < dist(j) \/ (dist(k) = dist(j) /\ k <= j)

(***************************************************************************)
(* _place_doors                                                            *)
(***************************************************************************)
Door(x, y, direction, type, open) ==
    [x1 |-> x, y1 |-> y, direction |-> direction, type |-> type, open |-> open]

door_positions(ds) == {<<ds[i].x1, ds[i].y1>> : i \in 1..Len(ds)}

\* the direction chosen from the room edge the point lies next to
door_direction(room, x, y) ==
    IF x = room.x1 - 1 THEN "right"
    ELSE IF x = room.x2 THEN "left"
    ELSE IF y = room.y1 - 1 THEN "down"
    ELSE IF y = room.y2 THEN "up"
    ELSE "none"

\* doors_of_endpoint with the door put on the room tile the endpoint touches
\* instead of on the endpoint
RECURSIVE doors_of_endpoint_on_room_tile(_, _, _, _)
doors_of_endpoint_on_room_tile(ds, all_rooms, point, k) ==
    IF k > Len(all_rooms) THEN ds
    ELSE LET room == all_rooms[k]
             direction == door_direction(room, point[1], point[2])
             x == point[1] + (IF direction = "right" THEN 1
                              ELSE IF direction = "left" THEN -1 ELSE 0)
             y == point[2] + (IF direction = "down" THEN 1
                              ELSE IF direction = "up" THEN -1 ELSE 0)
         IN IF contains_point(room, point, 1)
            THEN IF point \in door_positions(ds)
                 THEN doors_of_endpoint_on_room_tile(ds, all_rooms, point, k + 1)
                 ELSE IF direction = "none"
                 THEN doors_of_endpoint_on_room_tile(ds, all_rooms, point, k + 1)
                 ELSE Append(ds, Door(x, y, direction, "WOOD", FALSE))
            ELSE doors_of_endpoint_on_room_tile(ds, all_rooms, point, k + 1)

\* doors_of_endpoint without the test (x, y) in door_positions
RECURSIVE doors_of_endpoint_no_dedup(_, _, _, _)
doors_of_endpoint_no_dedup(ds, all_rooms, point, k) ==
    IF k > Len(all_rooms) THEN ds
    ELSE LET room == all_rooms[k]
         IN IF contains_point(room, point, 1)
            THEN IF door_direction(room, point[1], point[2]) = "none"
                 THEN doors_of_endpoint_no_dedup(ds, all_rooms, point, k + 1)
                 ELSE Append(ds, Door(point[1], point[2],
                                      door_direction(room, point[1], point[2]),
                                      "WOOD", FALSE))
            ELSE doors_of_endpoint_no_dedup(ds, all_rooms, point, k + 1)

\* "for room in self.rooms" for one endpoint, from the k-th room on
RECURSIVE doors_of_endpoint(_, _, _, _)
doors_of_endpoint(ds, all_rooms, point, k) ==
    IF k > Len(all_rooms) THEN ds
    ELSE LET room == all_rooms[k]
         IN IF contains_point(room, point, 1)
            THEN IF point \in door_positions(ds)
                 THEN doors_of_endpoint(ds, all_rooms, point, k + 1)
                 ELSE IF door_direction(room, point[1], point[2]) = "none"
                 THEN doors_of_endpoint(ds, all_rooms, point, k + 1)
                 ELSE Append(ds, Door(point[1], point[2],
                                      door_direction(room, point[1], point[2]),
                                      "WOOD", FALSE))
            ELSE doors_of_endpoint(ds, all_rooms, point, k + 1)

\* the endpoints inspected for a hallway: its first segment and, when it has
\* more than one, its second
hallway_endpoints(hallway) ==
    IF Len(hallway) > 1 THEN <<hallway[1], hallway[2]>> ELSE <<hallway[1]>>

RECURSIVE doors_of_endpoints(_, _, _)
doors_of_endpoints(ds, all_rooms, endpoints) ==
    IF endpoints = <<>> THEN ds
    ELSE doors_of_endpoints(
            doors_of_endpoint(ds, all_rooms,
                              <<Head(endpoints).x1, Head(endpoints).y1>>, 1),
            all_rooms, Tail(endpoints))

RECURSIVE place_doors(_, _, _)
place_doors(ds, all_rooms, halls) ==
    IF halls = <<>> THEN ds
    ELSE place_doors(doors_of_endpoints(ds, all_rooms, hallway_endpoints(Head(halls))),
                     all_rooms, Tail(halls))

(***************************************************************************)
(* _place_walls                                                            *)
(***************************************************************************)
\* WallSegment(x1, y1, x2, y2): the endpoints (the door fields keep their
\* defaults in every wall _place_walls appends)
WallSegment(x1, y1, x2, y2) == [x1 |-> x1, y1 |-> y1, x2 |-> x2, y2 |-> y2]

floor_coords(g) ==
    {c \in (0..(GridWidth(g) - 1)) \X (0..(GridHeight(g) - 1)) : g[c[2]][c[1]] = 1}

\* walls_of_tile with the right-hand test looking at the left neighbour
walls_of_tile_wrong_neighbour(fc, x, y) ==
    (IF <<x, y - 1>> \notin fc THEN <<WallSegment(x, y, x + 1, y)>> ELSE <<>>)
    \o (IF <<x, y + 1>> \notin fc THEN <<WallSegment(x, y + 1, x + 1, y + 1)>> ELSE <<>>)
    \o (IF <<x - 1, y>> \notin fc THEN <<WallSegment(x, y, x, y + 1)>> ELSE <<>>)
    \o (IF <<x - 1, y>> \notin fc THEN <<WallSegment(x + 1, y, x + 1, y + 1)>> ELSE <<>>)

\* the walls appended for one floor tile: top, bottom, left, right
walls_of_tile(fc, x, y) ==
    (IF <<x, y - 1>> \notin fc THEN <<WallSegment(x, y, x + 1, y)>> ELSE <<>>)
    \o (IF <<x, y + 1>> \notin fc THEN <<WallSegment(x, y + 1, x + 1, y + 1)>> ELSE <<>>)
    \o (IF <<x - 1, y>> \notin fc THEN <<WallSegment(x, y, x, y + 1)>> ELSE <<>>)
    \o (IF <<x + 1, y>> \notin fc THEN <<WallSegment(x + 1, y, x + 1, y + 1)>> ELSE <<>>)

\* "for x, y in floor_coords": the tiles are visited here row by row (the
\* source visits them in the iteration order of a set of tuples)
RECURSIVE place_walls(_, _, _)
place_walls(g, fc, n) ==
    IF n >= GridWidth(g) * GridHeight(g) THEN <<>>
    ELSE LET x == n % GridWidth(g)
             y == n \div GridWidth(g)
         IN (IF <<x, y>> \in fc THEN walls_of_tile(fc, x, y) ELSE <<>>)
            \o place_walls(g, fc, n + 1)

(***************************************************************************)
(* State of one generation run                                             *)
(***************************************************************************)
(***************************************************************************)
(* GenerationSettings                                                      *)
(***************************************************************************)
\* the active tag of the Room Size group, or "none"
SizeTags == {"none", "SMALL_ROOMS", "MEDIUM_ROOMS", "LARGE_ROOMS"}

\* GenerationTag.resolve_room_size
resolve_room_size(sizeTag) ==
    IF sizeTag = "SMALL_ROOMS" THEN <<4, 6>>
    ELSE IF sizeTag = "LARGE_ROOMS" THEN <<10, 16>>
    ELSE <<6, 10>>

\* GenerationSettings(seed, tags, width, height): the class defines its own
\* __init__, which the dataclass decorator keeps, so __post_init__ never runs;
\* __init__ stores the resolved pair in room_min_size/room_max_size and
\* min_room_size/max_room_size keep the values of the class attributes
GenerationSettings(sizeTag) ==
    [size_tag |-> sizeTag,
     min_room_size |-> 5,
     max_room_size |-> 12,
     margin |-> Margin,
     room_min_size |-> resolve_room_size(sizeTag)[1],
     room_max_size |-> resolve_room_size(sizeTag)[2]]

\* the settings of the bounded runs: the two sizes the placement loop reads
\* are scaled down to the bounds
BoundedSettings ==
    [GenerationSettings("none") EXCEPT !.min_room_size = MinRoomSize,
                                       !.max_room_size = MaxRoomSize]

VARIABLES
    pc,           \* position in generate_dungeon
    settings,     \* self.settings
    error,        \* name of the exception that ended the run, or "none"
    width,        \* arguments of generate_dungeon
    height,
    maze,         \* GenerationTag.MAZE in settings.tags
    entranceTag,  \* the active tag of the Entrances group, or "none"
    attempt,      \* loop variable i of _place_rooms
    rooms,        \* placed_rooms, then self.rooms
    grid,         \* dungeon.grid
    hallways,     \* self.hallways
    loop,         \* locals of _place_hallways: hallways, connected, remaining,
                  \* current, failure; the number of iterations of the
                  \* "while remaining" loop that ran to their end
    check,        \* last value returned by __check_all_rooms_connected
    repair,       \* locals and return value of _place_missing_hallways, and
                  \* what its last iteration obtained (a hallway or None)
    doors,        \* dungeon.doors
    walls,        \* dungeon.walls
    request,      \* the last call made of a function on its own (a carve
                  \* request of the dungeon with the grid it was made on, a
                  \* validation of a path with its answer)
    search        \* locals of one connection attempt between two rooms:
                  \* _connect_adjacent_rooms, then the search of _connect_rooms

vars == <<pc, settings, error, width, height, maze, entranceTag, attempt, rooms,
          grid, hallways, loop, check, repair, doors, walls, request, search>>

inputs == <<settings, width, height, maze, entranceTag>>

\* the settings the model runs with: no Entrances tag (the direction is drawn
\* at random), one forced direction, and STAIRS
EntranceTags == {"none", "north", "stairs"}

\* what the last iteration of the main loop did: nothing yet, a connection
\* made by the direct attempts or by the fallback (between the rooms r1 and
\* r2), or an exhausted room
NoIteration == [via |-> "none", r1 |-> -1, r2 |-> -1]

NoLoop == [hallways |-> <<>>, connected |-> {}, remaining |-> {},
           current |-> -1, failure |-> FALSE, last |-> NoIteration,
           iterations |-> 0]

NoRequest == [op |-> "none"]

NoSearch == [phase |-> "none"]

NoRepair == [connected_ids |-> {}, disconnected_rooms |-> <<>>, next |-> 1,
             result |-> "none", last |-> "none"]

Init ==
    /\ pc = "place_rooms"
    /\ settings = BoundedSettings
    /\ error = "none"
    /\ \E size \in DungeonSizes : width = size[1] /\ height = size[2]
    /\ maze \in BOOLEAN
    /\ entranceTag \in EntranceTags
    /\ attempt = 0
    /\ rooms = <<>>
    /\ grid = NewGrid(width, height)
    /\ hallways = <<>>
    /\ loop = NoLoop
    /\ check = "none"
    /\ repair = NoRepair
    /\ doors = <<>>
    /\ walls = <<>>
    /\ request = NoRequest
    /\ search = NoSearch

Raise(name) ==
    /\ pc' = "raised"
    /\ error' = name

(***************************************************************************)
(* _place_rooms: one iteration of the placement loop                       *)
(***************************************************************************)
PlaceRoomAttempt ==
    /\ pc = "place_rooms"
    /\ attempt < MaxAttempts
    /\ IF RandintRaises(settings.min_room_size, settings.max_room_size)
       THEN Raise("ValueError") /\ UNCHANGED <<attempt, rooms, grid>>
       ELSE \E w, h \in settings.min_room_size..settings.max_room_size :
            IF \/ RandintRaises(settings.margin, width - w - settings.margin)
               \/ RandintRaises(settings.margin, height - h - settings.margin)
            THEN Raise("ValueError") /\ UNCHANGED <<attempt, rooms, grid>>
            ELSE \E x \in settings.margin..(width - w - settings.margin),
                    y \in settings.margin..(height - h - settings.margin) :
                 LET new_room == Room(attempt, x, y, x + w, y + h)
                 IN /\ attempt' = attempt + 1
                    /\ UNCHANGED <<pc, error>>
                    /\ IF \E k \in 1..Len(rooms) :
                             intersects_with_buffer(new_room, rooms[k], 1)
                       THEN UNCHANGED <<rooms, grid>>
                       ELSE /\ rooms' = Append(rooms, new_room)
                            /\ grid' = carve_room(grid, new_room.x1, new_room.y1,
                                                  new_room.x2, new_room.y2)
    /\ UNCHANGED <<search, request, inputs, hallways, loop, check, repair, doors, walls>>

\* the end of the placement loop
PlaceRoomsDone ==
    /\ pc = "place_rooms"
    /\ attempt = MaxAttempts
    /\ pc' = "place_hallways"
    /\ UNCHANGED <<search, request, error, inputs, attempt, rooms, grid, hallways, loop, check, repair, doors, walls>>

(***************************************************************************)
(* _place_hallways                                                         *)
(***************************************************************************)
\* the statements before the loop; set.pop() of an empty set raises KeyError,
\* and of a set of small integers removes the smallest
PlaceHallwaysStart ==
    /\ pc = "place_hallways"
    /\ IF Len(rooms) = 0
       THEN Raise("KeyError") /\ UNCHANGED loop
       ELSE LET all == 0..(Len(rooms) - 1)
                first == CHOOSE i \in all : \A j \in all : i <= j
            IN /\ loop' = [hallways |-> <<>>, connected |-> {first},
                           remaining |-> all \ {first}, current |-> first,
                           failure |-> FALSE, last |-> NoIteration,
                           iterations |-> 0]
               /\ pc' = "connect_loop"
               /\ UNCHANGED error
    /\ UNCHANGED <<search, request, inputs, attempt, rooms, grid, hallways, check, repair, doors, walls>>

\* one iteration of "while remaining"
ConnectNextRoom ==
    /\ pc = "connect_loop"
    /\ loop.remaining # {}
    /\ LET nearest == nearest_room(rooms, loop.current, loop.remaining)
       IN \E res \in connect_next(maze, rooms, hallways, width, height,
                                  loop.current, nearest, loop.connected) :
            CASE res.kind = "connected" ->
                   /\ grid' = carve_hallway(grid, res.hallway)
                   /\ rooms' = add_connection(rooms, res.r1 + 1, res.r2 + 1)
                   /\ loop' = [loop EXCEPT
                                 !.hallways = Append(@, res.hallway),
                                 !.connected = @ \cup {nearest},
                                 !.remaining = @ \ {nearest},
                                 !.current = nearest,
                                 !.iterations = @ + 1,
                                 !.last = [via |-> res.via, r1 |-> res.r1,
                                           r2 |-> res.r2]]
                   /\ UNCHANGED <<pc, error>>
              [] res.kind = "exhausted" ->
                   /\ loop' = [loop EXCEPT
                                 !.remaining = @ \ {nearest},
                                 !.current = nearest,
                                 !.failure = TRUE,
                                 !.iterations = @ + 1,
                                 !.last = [via |-> "exhausted",
                                           r1 |-> loop.current, r2 |-> nearest]]
                   /\ UNCHANGED <<pc, error, rooms, grid>>
              [] res.kind = "raised" ->
                   /\ Raise("UnboundLocalError")
                   /\ UNCHANGED <<rooms, grid, loop>>
    /\ UNCHANGED <<search, request, inputs, attempt, hallways, check, repair, doors, walls>>

\* the statements after the loop: the hallways are stored only when no room
\* was exhausted
PlaceHallwaysDone ==
    /\ pc = "connect_loop"
    /\ loop.remaining = {}
    /\ hallways' = IF ~loop.failure THEN loop.hallways ELSE hallways
    /\ pc' = "connect_room_to_map_edge"
    /\ UNCHANGED <<search, request, error, inputs, attempt, rooms, grid, loop, check, repair, doors, walls>>

(***************************************************************************)
(* _connect_room_to_map_edge                                               *)
(***************************************************************************)
ConnectRoomToMapEdge ==
    /\ pc = "connect_room_to_map_edge"
    /\ IF entrance_directions(entranceTag) = {}
       THEN UNCHANGED <<rooms, grid, hallways>>
       ELSE \E direction \in entrance_directions(entranceTag) :
            \E res \in connect_room_to_map_edge(rooms, hallways, width, height,
                                                direction, 1) :
              IF res.kind = "entrance"
              THEN /\ grid' = carve_line(grid, res.candidate.x1, res.candidate.y1,
                                         res.candidate.x2, res.candidate.y2)
                   /\ rooms' = [rooms EXCEPT ![res.room].room_type = "ENTRANCE"]
                   /\ hallways' = Append(hallways, Hallway(<<res.candidate>>))
              ELSE UNCHANGED <<rooms, grid, hallways>>
    /\ pc' = "check_all_rooms_connected"
    /\ UNCHANGED <<search, request, error, inputs, attempt, loop, check, repair, doors, walls>>

(***************************************************************************)
(* generate_dungeon, step 2.2: the connectivity check                      *)
(***************************************************************************)
CheckAllRoomsConnected ==
    /\ pc = "check_all_rooms_connected"
    /\ IF check_all_rooms_connected(rooms)
       THEN check' = "true" /\ pc' = "place_doors"
       ELSE check' = "false" /\ pc' = "place_missing_hallways"
    /\ UNCHANGED <<search, request, error, inputs, attempt, rooms, grid, hallways, loop, repair,
                   doors, walls>>

(***************************************************************************)
(* _place_missing_hallways                                                 *)
(***************************************************************************)
\* the statements before the loop: connected_ids is assigned only when a room
\* is tagged Entrance, and reading it unassigned raises NameError
PlaceMissingHallwaysStart ==
    /\ pc = "place_missing_hallways"
    /\ LET entrances == {k \in 1..Len(rooms) : rooms[k].room_type = "ENTRANCE"}
       IN IF entrances = {}
          THEN Raise("NameError") /\ UNCHANGED repair
          ELSE LET first == CHOOSE k \in entrances : \A j \in entrances : k <= j
                   ids == get_connected_room_ids_by_extension(rooms[first], rooms)
                   missing == {k \in 1..Len(rooms) : rooms[k].id \notin ids}
               IN /\ repair' = [connected_ids |-> ids,
                                disconnected_rooms |-> SortedSeq(missing),
                                next |-> 1, result |-> "none",
                                last |-> "none"]
                  /\ pc' = "repair_loop"
                  /\ UNCHANGED error
    /\ UNCHANGED <<search, request, inputs, attempt, rooms, grid, hallways, loop, check, doors, walls>>

\* one iteration of "for room in disconnected_rooms"
RepairNextRoom ==
    /\ pc = "repair_loop"
    /\ repair.next <= Len(repair.disconnected_rooms)
    /\ LET r == repair.disconnected_rooms[repair.next]
           c == closest_connected(rooms, r, repair.connected_ids)
           adjacent == connect_adjacent_rooms(rooms[r], rooms[c])
           routed == connect_rooms(maze, rooms, hallways, width, height,
                                   rooms[r], rooms[c])
           raises == adjacent = {} /\ connect_rooms_raises(maze, rooms[r], rooms[c])
           results == IF adjacent # {} THEN {Hallway(<<p>>) : p \in adjacent}
                      ELSE IF raises THEN {None}
                      ELSE routed
       IN \E hallway \in results :
            IF raises
            THEN Raise("UnboundLocalError")
                 /\ UNCHANGED <<rooms, grid, hallways, check, repair>>
            ELSE IF hallway = None
            THEN /\ repair' = [repair EXCEPT !.next = @ + 1, !.last = "None"]
                 /\ UNCHANGED <<pc, error, rooms, grid, hallways, check>>
            ELSE LET connected == add_connection(add_connection(rooms, r, c), r, c)
                 IN /\ grid' = carve_hallway(grid, hallway)
                    /\ rooms' = connected
                    /\ hallways' = Append(hallways, hallway)
                    /\ UNCHANGED error
                    /\ IF check_all_rooms_connected(connected)
                       THEN /\ check' = "true"
                            /\ repair' = [repair EXCEPT !.result = "true",
                                                         !.last = "hallway"]
                            /\ pc' = "place_doors"
                       ELSE /\ check' = "false"
                            /\ repair' = [repair EXCEPT
                                 !.next = @ + 1,
                                 !.last = "hallway",
                                 !.connected_ids =
                                    update_connected_ids(@, connected[r],
                                                         connected)]
                            /\ pc' = pc
    /\ UNCHANGED <<search, request, inputs, attempt, loop, doors, walls>>

\* the statements after the loop
PlaceMissingHallwaysDone ==
    /\ pc = "repair_loop"
    /\ repair.next > Len(repair.disconnected_rooms)
    /\ repair' = [repair EXCEPT !.result = "false"]
    /\ pc' = "place_doors"
    /\ UNCHANGED <<search, request, error, inputs, attempt, rooms, grid, hallways, loop, check,
                   doors, walls>>

(***************************************************************************)
(* _place_doors and _place_walls                                           *)
(***************************************************************************)
PlaceDoors ==
    /\ pc = "place_doors"
    /\ doors' = place_doors(<<>>, rooms, hallways)
    /\ pc' = "place_walls"
    /\ UNCHANGED <<search, request, error, inputs, attempt, rooms, grid, hallways, loop, check,
                   repair, walls>>

PlaceWalls ==
    /\ pc = "place_walls"
    /\ walls' = walls \o place_walls(grid, floor_coords(grid), 0)
    /\ pc' = "done"
    /\ UNCHANGED <<search, request, error, inputs, attempt, rooms, grid, hallways, loop, check,
                   repair, doors>>

Next ==
    \/ PlaceRoomAttempt
    \/ PlaceRoomsDone
    \/ PlaceHallwaysStart
    \/ ConnectNextRoom
    \/ PlaceHallwaysDone
    \/ ConnectRoomToMapEdge
    \/ CheckAllRoomsConnected
    \/ PlaceMissingHallwaysStart
    \/ RepairNextRoom
    \/ PlaceMissingHallwaysDone
    \/ PlaceDoors
    \/ PlaceWalls

Spec == Init /\ [][Next]_vars


(***************************************************************************)
(* _place_doors on its own: the rooms are any placement of two rooms of    *)
(* the smallest size, the hallway list is any two hallways whose stubs lie *)
(* on the 1-tile ring around a room (the first around the first room, the  *)
(* second on the same tile or around the second room), the second hallway  *)
(* with one or two stubs                                                   *)
(***************************************************************************)
PlacementCandidates(id, w, h) ==
    {Room(id, x, y, x + MinRoomSize, y + MinRoomSize) :
        x \in Margin..(w - MinRoomSize - Margin),
        y \in Margin..(h - MinRoomSize - Margin)}

Ring(room) ==
    {c \in ((room.x1 - 1)..room.x2) \X ((room.y1 - 1)..room.y2) :
        ~contains_point(room, c, 0)}

Stub(c) == Path(c[1], c[2], c[1], c[2])

\* the tiles covered by the segments of a hallway
HallwayTiles(hw) == UNION {get_line_points(hw[k]) : k \in 1..Len(hw)}

InitDoors ==
    /\ pc = "place_doors"
    /\ settings = BoundedSettings
    /\ error = "none"
    /\ width = Width
    /\ height = Height
    /\ maze = FALSE
    /\ entranceTag = "stairs"
    /\ attempt = MaxAttempts
    /\ \E r1 \in PlacementCandidates(0, width, height),
          r2 \in PlacementCandidates(1, width, height) :
          /\ ~intersects_with_buffer(r2, r1, 1)
          /\ rooms = <<r1, r2>>
    /\ \E p \in Ring(rooms[1]) : \E q \in {p} \cup Ring(rooms[2]) :
          hallways \in {<<Hallway(<<Stub(p)>>), Hallway(<<Stub(q)>>)>>,
                        <<Hallway(<<Stub(p)>>), Hallway(<<Stub(q), Stub(p)>>)>>}
    /\ grid = [y \in 0..(height - 1) |-> [x \in 0..(width - 1) |->
                 IF \/ \E k \in 1..2 : contains_point(rooms[k], <<x, y>>, 0)
                    \/ \E i \in 1..2 : <<x, y>> \in HallwayTiles(hallways[i])
                 THEN 1 ELSE 0]]
    /\ loop = NoLoop
    /\ check = "none"
    /\ repair = NoRepair
    /\ doors = <<>>
    /\ walls = <<>>
    /\ request = NoRequest
    /\ search = NoSearch

SpecDoors == InitDoors /\ [][PlaceDoors]_vars

(***************************************************************************)
(* The first iteration of the placement loop with the settings as          *)
(* GenerationSettings constructs them, for every tag of the Room Size      *)
(* group, on a square dungeon in which every position draw has a           *)
(* non-empty range                                                         *)
(***************************************************************************)
SettingsDungeonSize == 14

InitSizes ==
    /\ pc = "place_rooms"
    /\ \E sizeTag \in SizeTags : settings = GenerationSettings(sizeTag)
    /\ error = "none"
    /\ width = SettingsDungeonSize
    /\ height = SettingsDungeonSize
    /\ maze = FALSE
    /\ entranceTag = "none"
    /\ attempt = 0
    /\ rooms = <<>>
    /\ grid = NewGrid(width, height)
    /\ hallways = <<>>
    /\ loop = NoLoop
    /\ check = "none"
    /\ repair = NoRepair
    /\ doors = <<>>
    /\ walls = <<>>
    /\ request = NoRequest
    /\ search = NoSearch

PlaceFirstRoom == attempt = 0 /\ PlaceRoomAttempt

SpecSizes == InitSizes /\ [][PlaceFirstRoom]_vars

(***************************************************************************)
(* The Dungeon on its own: any sequence of carve_tile, carve_room and      *)
(* carve_line calls on a small grid, with coordinates inside and outside   *)
(* the grid                                                                *)
(***************************************************************************)
CarveWidth == 2

CarveHeight == 2

InitCarve ==
    /\ pc = "carve"
    /\ settings = BoundedSettings
    /\ error = "none"
    /\ width = CarveWidth
    /\ height = CarveHeight
    /\ maze = FALSE
    /\ entranceTag = "none"
    /\ attempt = 0
    /\ rooms = <<>>
    /\ grid = NewGrid(width, height)
    /\ hallways = <<>>
    /\ loop = NoLoop
    /\ check = "none"
    /\ repair = NoRepair
    /\ doors = <<>>
    /\ walls = <<>>
    /\ request = NoRequest
    /\ search = NoSearch

CarveRequest(op, x1, y1, x2, y2) ==
    [op |-> op, x1 |-> x1, y1 |-> y1, x2 |-> x2, y2 |-> y2, before |-> grid]

CarveUnchanged ==
    UNCHANGED <<search, inputs, attempt, rooms, hallways, loop, check, repair, doors, walls>>

CarveTile ==
    /\ pc = "carve"
    /\ \E x \in -1..width, y \in -1..height :
          /\ request' = CarveRequest("carve_tile", x, y, x, y)
          /\ grid' = carve_tile(grid, x, y)
    /\ UNCHANGED <<pc, error>>
    /\ CarveUnchanged

CarveRoom ==
    /\ pc = "carve"
    /\ \E x1 \in -1..width, y1 \in -1..height :
       \E x2 \in x1..(width + 1), y2 \in y1..(height + 1) :
          /\ request' = CarveRequest("carve_room", x1, y1, x2, y2)
          /\ grid' = carve_room(grid, x1, y1, x2, y2)
    /\ UNCHANGED <<pc, error>>
    /\ CarveUnchanged

CarveLine ==
    /\ pc = "carve"
    /\ \E x1, x2 \in -1..width, y1, y2 \in -1..height :
          /\ request' = CarveRequest("carve_line", x1, y1, x2, y2)
          /\ IF carve_line_raises(x1, y1, x2, y2)
             THEN /\ Raise("ValueError")
                  /\ UNCHANGED grid
             ELSE /\ grid' = carve_line(grid, x1, y1, x2, y2)
                  /\ UNCHANGED <<pc, error>>
    /\ CarveUnchanged

NextCarve == CarveTile \/ CarveRoom \/ CarveLine

SpecCarve == InitCarve /\ [][NextCarve]_vars

(***************************************************************************)
(* _place_hallways on its own: the rooms are any placement of three rooms  *)
(* of the smallest size that _place_rooms accepts on a dungeon of          *)
(* LoopWidth x LoopHeight tiles                                            *)
(***************************************************************************)
LoopWidth == 10

LoopHeight == 10

InitLoop ==
    /\ pc = "place_hallways"
    /\ settings = BoundedSettings
    /\ error = "none"
    /\ width = LoopWidth
    /\ height = LoopHeight
    /\ maze = FALSE
    /\ entranceTag = "none"
    /\ attempt = MaxAttempts
    /\ \E r0 \in PlacementCandidates(0, width, height),
          r1 \in PlacementCandidates(1, width, height),
          r2 \in PlacementCandidates(2, width, height) :
          /\ ~intersects_with_buffer(r1, r0, 1)
          /\ ~intersects_with_buffer(r2, r0, 1)
          /\ ~intersects_with_buffer(r2, r1, 1)
          /\ rooms = <<r0, r1, r2>>
    /\ grid = [y \in 0..(height - 1) |-> [x \in 0..(width - 1) |->
                 IF \E k \in 1..3 : contains_point(rooms[k], <<x, y>>, 0)
                 THEN 1 ELSE 0]]
    /\ hallways = <<>>
    /\ loop = NoLoop
    /\ check = "none"
    /\ repair = NoRepair
    /\ doors = <<>>
    /\ walls = <<>>
    /\ request = NoRequest
    /\ search = NoSearch

NextLoop ==
    \/ PlaceHallwaysStart
    \/ ConnectNextRoom
    \/ PlaceHallwaysDone

SpecLoop == InitLoop /\ [][NextLoop]_vars

(***************************************************************************)
(* generate_dungeon from _place_hallways to the end of the repair pass:    *)
(* the rooms are any placement of three rooms of the smallest size on a    *)
(* dungeon of RepairWidth x RepairHeight tiles, the NORTH tag is set       *)
(***************************************************************************)
RepairWidth == 9

RepairHeight == 8

InitRepair ==
    /\ pc = "place_hallways"
    /\ settings = BoundedSettings
    /\ error = "none"
    /\ width = RepairWidth
    /\ height = RepairHeight
    /\ maze = FALSE
    /\ entranceTag = "north"
    /\ attempt = MaxAttempts
    /\ \E r0 \in PlacementCandidates(0, width, height),
          r1 \in PlacementCandidates(1, width, height),
          r2 \in PlacementCandidates(2, width, height) :
          /\ ~intersects_with_buffer(r1, r0, 1)
          /\ ~intersects_with_buffer(r2, r0, 1)
          /\ ~intersects_with_buffer(r2, r1, 1)
          /\ rooms = <<r0, r1, r2>>
    /\ grid = [y \in 0..(height - 1) |-> [x \in 0..(width - 1) |->
                 IF \E k \in 1..3 : contains_point(rooms[k], <<x, y>>, 0)
                 THEN 1 ELSE 0]]
    /\ hallways = <<>>
    /\ loop = NoLoop
    /\ check = "none"
    /\ repair = NoRepair
    /\ doors = <<>>
    /\ walls = <<>>
    /\ request = NoRequest
    /\ search = NoSearch

NextRepair ==
    \/ PlaceHallwaysStart
    \/ ConnectNextRoom
    \/ PlaceHallwaysDone
    \/ ConnectRoomToMapEdge
    \/ CheckAllRoomsConnected
    \/ PlaceMissingHallwaysStart
    \/ RepairNextRoom
    \/ PlaceMissingHallwaysDone

SpecRepair == InitRepair /\ [][NextRepair]_vars

(***************************************************************************)
(* One connection attempt between two rooms on its own, step by step: the  *)
(* adjacent attempt, then the search of _connect_rooms with one action per *)
(* outer iteration.  The rooms are any placement of two rooms of the       *)
(* smallest size on a dungeon of RouteWidth x RouteHeight tiles; r1 is the *)
(* first room of the list, r2 the second.                                  *)
(***************************************************************************)
RouteWidth == 7

RouteHeight == 7

\* the number of iterations of the outer loop of the search, range(100) in
\* the source
SearchIterations == 2

NoAttempt == [direction_r1 |-> "none", direction_r2 |-> "none",
              key |-> <<>>, segments |-> <<>>, checks |-> <<>>]

InitRoute ==
    /\ pc = "connect_adjacent_rooms"
    /\ settings = BoundedSettings
    /\ error = "none"
    /\ width = RouteWidth
    /\ height = RouteHeight
    /\ maze \in BOOLEAN
    /\ entranceTag = "none"
    /\ attempt = MaxAttempts
    /\ \E r0 \in PlacementCandidates(0, width, height),
          r1 \in PlacementCandidates(1, width, height) :
          /\ ~intersects_with_buffer(r1, r0, 1)
          /\ rooms = <<r0, r1>>
    /\ grid = [y \in 0..(height - 1) |-> [x \in 0..(width - 1) |->
                 IF \E k \in 1..2 : contains_point(rooms[k], <<x, y>>, 0)
                 THEN 1 ELSE 0]]
    /\ hallways = <<>>
    /\ loop = NoLoop
    /\ check = "none"
    /\ repair = NoRepair
    /\ doors = <<>>
    /\ walls = <<>>
    /\ request = NoRequest
    /\ search = NoSearch

RouteUnchanged ==
    UNCHANGED <<request, inputs, attempt, hallways, loop, check, repair, doors, walls>>

\* _connect_adjacent_rooms(dungeon, r1, r2)
ConnectAdjacentRooms ==
    /\ pc = "connect_adjacent_rooms"
    /\ LET adjacent == connect_adjacent_rooms(rooms[1], rooms[2])
       IN IF adjacent = {}
          THEN /\ search' = [phase |-> "adjacent", result |-> "None"]
               /\ pc' = "connect_rooms"
               /\ UNCHANGED <<rooms, grid>>
          ELSE \E p \in adjacent :
               /\ grid' = carve_hallway(grid, Hallway(<<p>>))
               /\ rooms' = add_connection(rooms, 1, 2)
               /\ search' = [phase |-> "adjacent", result |-> "hallway",
                             hallway |-> Hallway(<<p>>)]
               /\ pc' = "connected"
    /\ UNCHANGED error
    /\ RouteUnchanged

\* _connect_rooms(dungeon, r1, r2) up to its first attempt: the scan of the
\* edge cells and the first read of the directions it leaves
ScanExitDirections ==
    /\ pc = "connect_rooms"
    /\ IF connect_rooms_raises(maze, rooms[1], rooms[2])
       THEN Raise("UnboundLocalError") /\ UNCHANGED search
       ELSE LET st == scan_directions(maze, rooms[1], rooms[2])
            IN /\ search' = [phase |-> "search", result |-> "none",
                             scan_r1 |-> st.direction_r1,
                             scan_r2 |-> st.direction_r2,
                             tried_edge_cells |-> {}, iterations |-> 0,
                             last |-> NoAttempt]
               /\ pc' = "search_loop"
               /\ UNCHANGED error
    /\ UNCHANGED <<rooms, grid>>
    /\ RouteUnchanged

\* one iteration of the outer "for _ in range(100)": the directions, the
\* inner loop that draws edge cells until it draws a pair not tried before
\* (or gives up after 100 draws of pairs already tried, which ends the
\* search), and the call of _connect_tiles
SearchIteration ==
    /\ pc = "search_loop"
    /\ search.iterations < SearchIterations
    /\ \E dd \in exit_directions(maze, rooms[1], rooms[2]) :
         LET cells == SeqRange(edge_in_direction(rooms[1], dd[1]))
                      \X SeqRange(edge_in_direction(rooms[2], dd[2]))
         IN \/ \E key \in cells \ search.tried_edge_cells, bit \in {0, 1} :
                 LET a == move_cell_in_direction(key[1], dd[1])
                     b == move_cell_in_direction(key[2], dd[2])
                     segments == route_segments(a, b, dd[1], dd[2], bit)
                     checks == route_checks(rooms, hallways, width, height,
                                   route_legs(a, b, dd[1], dd[2], bit))
                     done == [search EXCEPT
                                !.tried_edge_cells = @ \cup {key},
                                !.iterations = @ + 1,
                                !.last = [direction_r1 |-> dd[1],
                                          direction_r2 |-> dd[2],
                                          key |-> key, segments |-> segments,
                                          checks |-> checks]]
                 IN /\ grid' = route_carving(grid, segments, checks)
                    /\ IF route_success(checks)
                       THEN /\ rooms' = add_connection(rooms, 1, 2)
                            /\ search' = [done EXCEPT !.result = "hallway"]
                            /\ pc' = "connected"
                       ELSE /\ search' = done
                            /\ UNCHANGED <<pc, rooms>>
            \/ /\ cells \cap search.tried_edge_cells # {}
               /\ search' = [search EXCEPT !.result = "None",
                                           !.last = NoAttempt]
               /\ pc' = "not_connected"
               /\ UNCHANGED <<rooms, grid>>
    /\ UNCHANGED error
    /\ RouteUnchanged

\* the outer loop ends after its last iteration: "return None"
SearchExhausted ==
    /\ pc = "search_loop"
    /\ search.iterations = SearchIterations
    /\ search' = [search EXCEPT !.result = "None", !.last = NoAttempt]
    /\ pc' = "not_connected"
    /\ UNCHANGED <<error, rooms, grid>>
    /\ RouteUnchanged

NextRoute ==
    \/ ConnectAdjacentRooms
    \/ ScanExitDirections
    \/ SearchIteration
    \/ SearchExhausted

SpecRoute == InitRoute /\ [][NextRoute]_vars

(***************************************************************************)
(* The validation of paths on its own: __can_connect and                   *)
(* Path.paths_intersect_path called with any axis-aligned path of a small  *)
(* dungeon that holds two rooms of the smallest size and at most one       *)
(* recorded hallway, a straight segment in the corridor between the rooms  *)
(***************************************************************************)
ValidateWidth == 7

ValidateHeight == 4

\* the side of the square grid that holds the end points of the two paths
\* given to paths_intersect_path
PathSpan == 4

\* the axis-aligned paths whose end points lie on a w x h grid
AxisAlignedPaths(w, h) ==
    {Path(x1, y, x2, y) : x1 \in 0..(w - 1), x2 \in 0..(w - 1), y \in 0..(h - 1)}
    \cup {Path(x, y1, x, y2) : x \in 0..(w - 1), y1 \in 0..(h - 1), y2 \in 0..(h - 1)}

InitValidate ==
    /\ pc = "validate"
    /\ settings = BoundedSettings
    /\ error = "none"
    /\ width = ValidateWidth
    /\ height = ValidateHeight
    /\ maze = FALSE
    /\ entranceTag = "none"
    /\ attempt = MaxAttempts
    /\ \E r0 \in PlacementCandidates(0, width, height),
          r1 \in PlacementCandidates(1, width, height) :
          /\ ~intersects_with_buffer(r1, r0, 1)
          /\ rooms = <<r0, r1>>
    /\ grid = [y \in 0..(height - 1) |-> [x \in 0..(width - 1) |->
                 IF \E k \in 1..2 : contains_point(rooms[k], <<x, y>>, 0)
                 THEN 1 ELSE 0]]
    /\ \E x \in {Min(rooms[1].x2, rooms[2].x2)} :
          hallways \in {<<>>} \cup
             {<<Hallway(<<Path(x, y1, x, y2)>>)>> :
                 y1 \in 1..(height - 2), y2 \in 1..(height - 2)}
    /\ loop = NoLoop
    /\ check = "none"
    /\ repair = NoRepair
    /\ doors = <<>>
    /\ walls = <<>>
    /\ request = NoRequest
    /\ search = NoSearch

ValidateUnchanged ==
    UNCHANGED <<error, search, inputs, attempt, rooms, grid, hallways, loop,
                check, repair, doors, walls>>

\* __can_connect(dungeon, path, buffer, rooms_to_ignore, ignore_bounds)
CanConnect ==
    /\ pc = "validate"
    /\ \E path \in AxisAlignedPaths(width, height), buffer \in {0, 1},
          rooms_to_ignore \in {{}, {rooms[1]}, {rooms[2]}},
          ignore_bounds \in BOOLEAN :
          request' = [op |-> "can_connect", path |-> path, buffer |-> buffer,
                      rooms_to_ignore |-> rooms_to_ignore,
                      ignore_bounds |-> ignore_bounds,
                      result |-> can_connect(rooms, hallways, width, height,
                                             path, buffer, rooms_to_ignore,
                                             ignore_bounds)]
    /\ pc' = "validated"
    /\ ValidateUnchanged

\* self.paths_intersect_path(other)
PathsIntersectPath ==
    /\ pc = "validate"
    /\ \E self \in AxisAlignedPaths(PathSpan, PathSpan) :
       \E other \in AxisAlignedPaths(PathSpan, PathSpan) :
          request' = [op |-> "paths_intersect_path", self |-> self,
                      other |-> other,
                      result |-> paths_intersect_path(self, other)]
    /\ pc' = "validated"
    /\ ValidateUnchanged

NextValidate == CanConnect \/ PathsIntersectPath

SpecValidate == InitValidate /\ [][NextValidate]_vars

(***************************************************************************)
(* Properties                                                              *)
(***************************************************************************)
\* every hallway the run has produced: those of the main loop (kept in its
\* local list) and those stored in self.hallways
ProducedHallways == SeqRange(loop.hallways) \cup SeqRange(hallways)

NoEntranceRoom == \A k \in 1..Len(rooms) : rooms[k].room_type # "ENTRANCE"

\* C1: any two distinct placed rooms are separated by at least one tile that
\* belongs to neither, along x or along y (the rectangle of one, expanded by 1
\* on every side, does not meet the other), at every point of the run
C1_RoomsKeepOneTileApart ==
    \A i, j \in 1..Len(rooms) :
        i # j =>
            \/ rooms[i].x2 + 1 <= rooms[j].x1
            \/ rooms[j].x2 + 1 <= rooms[i].x1
            \/ rooms[i].y2 + 1 <= rooms[j].y1
            \/ rooms[j].y2 + 1 <= rooms[i].y1

C1_Witness == pc = "done" /\ Len(rooms) >= 3

\* the ids reachable from a room over the pairwise connections, as the least
\* set closed under "connected to a member"
RECURSIVE ReachableIds(_, _)
ReachableIds(S, all_rooms) ==
    LET step == S \cup {all_rooms[k].id : k \in
                   {k \in 1..Len(all_rooms) :
                       \E m \in 1..Len(all_rooms) :
                           all_rooms[m].id \in S /\ all_rooms[k].id \in all_rooms[m].connections}}
    IN IF step = S THEN S ELSE ReachableIds(step, all_rooms)

\* C2: whenever the connectivity check or the repair pass has returned True,
\* every room id is reachable from the room tagged Entrance
C2_ReportedConnectivityIsReal ==
    (check = "true" \/ repair.result = "true") =>
        \A k \in 1..Len(rooms) :
            rooms[k].room_type = "ENTRANCE" =>
                ReachableIds({rooms[k].id}, rooms) = RoomIds(rooms)

\* the repair pass has connected a room and returned True
C2_Witness ==
    /\ repair.result = "true"
    /\ Len(rooms) >= 2
    /\ \E k \in 1..Len(rooms) : rooms[k].room_type = "ENTRANCE"

\* the unit edges that separate a floor tile from a tile that is void or
\* outside the grid
ExposedEdges(g) ==
    {WallSegment(c[1], c[2], c[1] + 1, c[2]) :
        c \in {c \in (0..(GridWidth(g) - 1)) \X (0..GridHeight(g)) :
                 IsFloor(g, c[1], c[2] - 1) # IsFloor(g, c[1], c[2])}}
    \cup
    {WallSegment(c[1], c[2], c[1], c[2] + 1) :
        c \in {c \in (0..GridWidth(g)) \X (0..(GridHeight(g) - 1)) :
                 IsFloor(g, c[1] - 1, c[2]) # IsFloor(g, c[1], c[2])}}

\* C3: after wall derivation the wall list holds exactly the exposed edges of
\* the floor, each once
C3_WallsAreExposedEdges ==
    pc = "done" =>
        /\ SeqRange(walls) = ExposedEdges(grid)
        /\ \A i, j \in 1..Len(walls) : walls[i] = walls[j] => i = j

C3_Witness ==
    /\ pc = "done"
    /\ Len(rooms) >= 2
    /\ \E x \in 0..(width - 1) : IsFloor(grid, x, 0)
    /\ Len(hallways) >= 2

\* no room of the smallest size fits between the margins
TooSmallForAnyRoom ==
    \/ width - MinRoomSize - Margin < Margin
    \/ height - MinRoomSize - Margin < Margin

\* C4: a dungeon too small for any room is generated without an exception and
\* comes out with no room, an all-void grid of the requested size, no wall
\* and no door
C4_TooSmallDungeonIsEmptyAndValid ==
    TooSmallForAnyRoom =>
        /\ pc # "raised"
        /\ pc = "done" =>
             /\ rooms = <<>> /\ walls = <<>> /\ doors = <<>>
             /\ grid = NewGrid(width, height)

\* C5: when no room is tagged Entrance and the rooms are not all connected,
\* the repair pass ends with a boolean result and raises nothing
C5_RepairWithoutEntranceDoesNotRaise ==
    (check = "false" /\ NoEntranceRoom) => pc # "raised"

\* the rooms whose 1-tile margin contains the position
RoomsNear(x, y) == {k \in 1..Len(rooms) : contains_point(rooms[k], <<x, y>>, 1)}

\* C6 as stated: every door lies inside the 1-tile margin of exactly one room
C6_DoorNearExactlyOneRoom ==
    \A i \in 1..Len(doors) : Cardinality(RoomsNear(doors[i].x1, doors[i].y1)) = 1

\* C6 amended: every door lies on the 1-tile ring around at least one room
\* (inside that room's margin and outside the room)
C6_DoorNearSomeRoom ==
    \A i \in 1..Len(doors) :
        \E k \in RoomsNear(doors[i].x1, doors[i].y1) :
            ~contains_point(rooms[k], <<doors[i].x1, doors[i].y1>>, 0)

C6_Witness ==
    /\ pc = "done"
    /\ \E i, j \in 1..Len(doors) :
          /\ Cardinality(RoomsNear(doors[i].x1, doors[i].y1)) = 2
          /\ Cardinality(RoomsNear(doors[j].x1, doors[j].y1)) = 1

\* C7: no two doors of the door list have the same position
C7_DoorPositionsDistinct ==
    \A i, j \in 1..Len(doors) :
        (doors[i].x1 = doors[j].x1 /\ doors[i].y1 = doors[j].y1) => i = j

\* two hallways inspect the same position and a door stands there
C7_Witness ==
    /\ pc = "place_walls"
    /\ \E a \in SeqRange(hallway_endpoints(hallways[1])),
          b \in SeqRange(hallway_endpoints(hallways[2])) :
          /\ a.x1 = b.x1 /\ a.y1 = b.y1
          /\ <<a.x1, a.y1>> \in door_positions(doors)

\* C8 as stated: every hallway has between 1 and 3 segments
C8_AtMostThreeSegments ==
    \A hw \in ProducedHallways : 1 <= Len(hw) /\ Len(hw) <= 3

\* C8 amended: every hallway has 1, 3 or 4 segments (two stubs and one leg,
\* or two stubs and the two legs of an L-shaped route)
C8_OneThreeOrFourSegments ==
    \A hw \in ProducedHallways : Len(hw) \in {1, 3, 4}

\* a run with an L-shaped routed link and a 1-segment hallway
C8_Witness ==
    /\ pc = "done"
    /\ \E hw \in ProducedHallways : Len(hw) = 4
    /\ \E hw \in ProducedHallways : Len(hw) = 1

SharesEndpoint(p, q) ==
    {<<p.x1, p.y1>>, <<p.x2, p.y2>>} \cap {<<q.x1, q.y1>>, <<q.x2, q.y2>>} # {}

\* C9 as stated: consecutive segments of a hallway share an endpoint
C9_ConsecutiveSegmentsShareEndpoint ==
    \A hw \in ProducedHallways :
        \A k \in 1..(Len(hw) - 1) : SharesEndpoint(hw[k], hw[k + 1])

\* the tiles of T reachable from the tiles of S by steps to a side neighbour
RECURSIVE Flood(_, _)
Flood(S, T) ==
    LET step == S \cup {t \in T : \E c \in S : manhattan_distance(c, t) = 1}
    IN IF step = S THEN S ELSE Flood(step, T)

\* C9 amended: the tiles covered by the segments of a hallway form one
\* 4-connected set
C9_HallwayTilesConnected ==
    \A hw \in ProducedHallways :
        LET T == HallwayTiles(hw)
        IN Flood({CHOOSE t \in T : TRUE}, T) = T

C9_Witness ==
    /\ pc = "done"
    /\ \E hw \in ProducedHallways :
          /\ Len(hw) = 4
          /\ ~SharesEndpoint(hw[1], hw[2])
          /\ ~SharesEndpoint(hw[3], hw[4])

\* C10: the id of every placed room is its index in the room list (from 0)
C10_IdEqualsIndex ==
    \A k \in 1..Len(rooms) : rooms[k].id = k - 1

\* C11: the width and the height of every placed room lie within the
\* (min, max) pair resolved from the active tag of the Room Size group
C11_RoomSizesWithinResolvedRange ==
    \A k \in 1..Len(rooms) :
        /\ rooms[k].x2 - rooms[k].x1 \in settings.room_min_size..settings.room_max_size
        /\ rooms[k].y2 - rooms[k].y1 \in settings.room_min_size..settings.room_max_size

\* the hallway list entrance routing starts from: the list the main loop
\* stored in self.hallways
HallwaysBeforeEntrance == IF loop.failure THEN <<>> ELSE loop.hallways

EntranceRooms == {k \in 1..Len(rooms) : rooms[k].room_type = "ENTRANCE"}

\* the path starts on the tile just outside the edge of the room that faces
\* the direction, runs straight and ends on the map boundary of the direction
EntrancePathOf(p, room, direction) ==
    CASE direction = "up" ->
           /\ p.y1 = room.y1 - 1 /\ p.x1 \in room.x1..(room.x2 - 1)
           /\ p.x2 = p.x1 /\ p.y2 = 0
      [] direction = "down" ->
           /\ p.y1 = room.y2 /\ p.x1 \in room.x1..(room.x2 - 1)
           /\ p.x2 = p.x1 /\ p.y2 = height - 1
      [] direction = "left" ->
           /\ p.x1 = room.x1 - 1 /\ p.y1 \in room.y1..(room.y2 - 1)
           /\ p.y2 = p.y1 /\ p.x2 = 0
      [] direction = "right" ->
           /\ p.x1 = room.x2 /\ p.y1 \in room.y1..(room.y2 - 1)
           /\ p.y2 = p.y1 /\ p.x2 = width - 1

\* C12: right after entrance routing with a directional entrance, at most one
\* room is tagged Entrance and at most one hallway has been added to the
\* list; a room is tagged exactly when a hallway was added, and then the
\* hallway is one straight segment from the tile just outside the room's
\* edge facing the direction to the map boundary of the direction
C12_EntranceIsOneStraightPathToTheBoundary ==
    (pc = "check_all_rooms_connected" /\ entranceTag # "stairs") =>
        /\ Cardinality(EntranceRooms) <= 1
        /\ Len(hallways) \in {Len(HallwaysBeforeEntrance),
                               Len(HallwaysBeforeEntrance) + 1}
        /\ SubSeq(hallways, 1, Len(HallwaysBeforeEntrance)) = HallwaysBeforeEntrance
        /\ (EntranceRooms # {}) <=> (Len(hallways) = Len(HallwaysBeforeEntrance) + 1)
        /\ \A k \in EntranceRooms :
              LET hw == hallways[Len(hallways)]
              IN /\ Len(hw) = 1
                 /\ \E direction \in entrance_directions(entranceTag) :
                       EntrancePathOf(hw[1], rooms[k], direction)

\* the first room could not take the entrance and a later room took it
C12_Witness ==
    /\ pc = "check_all_rooms_connected"
    /\ entranceTag = "north"
    /\ \E k \in EntranceRooms : k >= 2
    /\ Len(hallways) >= 2

\* C14: the grid has exactly `height` rows and every row has exactly `width`
\* cells, in every state of the run
C14_GridKeepsRequestedDimensions ==
    /\ DOMAIN grid = 0..(height - 1)
    /\ \A y \in DOMAIN grid : DOMAIN grid[y] = 0..(width - 1)

\* a completed run that carved rooms, a routed hallway and an entrance path
C14_Witness ==
    /\ pc = "done"
    /\ width = Width
    /\ EntranceRooms # {}
    /\ \E i \in 1..Len(hallways) : Len(hallways[i]) >= 3

\* the tiles a carve request names
RequestedTiles(r) ==
    IF r.op = "carve_room"
    THEN (r.x1..(r.x2 - 1)) \X (r.y1..(r.y2 - 1))
    ELSE (Min(r.x1, r.x2)..Max(r.x1, r.x2)) \X (Min(r.y1, r.y2)..Max(r.y1, r.y2))

AxisAligned(r) == r.x1 = r.x2 \/ r.y1 = r.y2

\* C15: a carve_tile, carve_room or axis-aligned carve_line request raises
\* nothing, sets to floor exactly the requested tiles that are in range and
\* leaves every other tile as it was (so a floor tile stays floor)
C15_CarveClipsToTheGrid ==
    (request.op # "none" /\ (request.op = "carve_line" => AxisAligned(request))) =>
        /\ error = "none"
        /\ DOMAIN grid = DOMAIN request.before
        /\ \A y \in 0..(height - 1) : \A x \in 0..(width - 1) :
              grid[y][x] = IF <<x, y>> \in RequestedTiles(request)
                           THEN 1 ELSE request.before[y][x]

\* a request that reaches outside the grid on a grid that already has floor
C15_Witness ==
    /\ request.op = "carve_room"
    /\ request.x1 < 0
    /\ request.y2 > height
    /\ \E y \in 0..(height - 1) : \E x \in 0..(width - 1) :
          request.before[y][x] = 1 /\ <<x, y>> \notin RequestedTiles(request)

\* C16: in every state the connections relation is reflexive (every room's
\* id is in its own connections) and symmetric (j's id is in i's connections
\* iff i's id is in j's)
C16_ConnectionsReflexiveAndSymmetric ==
    /\ \A i \in 1..Len(rooms) : rooms[i].id \in rooms[i].connections
    /\ \A i, j \in 1..Len(rooms) :
          (rooms[j].id \in rooms[i].connections)
             <=> (rooms[i].id \in rooms[j].connections)

\* three rooms, of which some pair is connected and some pair is not
C16_Witness ==
    /\ Len(rooms) >= 3
    /\ \E i, j \in 1..Len(rooms) :
          i # j /\ rooms[j].id \in rooms[i].connections
    /\ \E i, j \in 1..Len(rooms) :
          i # j /\ rooms[j].id \notin rooms[i].connections

\* C17: at the end of every iteration of the main connection loop, every room
\* in `connected` is reachable from the seed room (the room popped first) over
\* the pairwise connections
C17_ConnectedIsOneTree ==
    pc = "connect_loop" =>
        \A i \in loop.connected :
            RoomAt(rooms, i).id \in ReachableIds({RoomAt(rooms, 0).id}, rooms)

\* C18: when the fallback of the main loop has succeeded with a candidate,
\* the nearest room (the one just moved into `connected`) is connected to
\* that candidate
C18_FallbackConnectsNearestToCandidate ==
    (pc = "connect_loop" /\ loop.last.via = "fallback") =>
        RoomAt(rooms, loop.last.r2).id \in RoomAt(rooms, loop.current).connections

\* C19: once the main loop has ended, every hallway it created is in the
\* hallway list that entrance routing, the repair pass and door derivation
\* read
C19_LoopHallwaysAreKept ==
    pc \notin {"place_rooms", "place_hallways", "connect_loop", "carve", "raised"} =>
        \A hw \in SeqRange(loop.hallways) : hw \in SeqRange(hallways)

\* the legs of the routed hallway at position j of a list meet no segment of
\* a hallway at an earlier position
LegsAvoidEarlier(list) ==
    \A j \in 1..Len(list) : \A i \in 1..(j - 1) :
        Len(list[j]) >= 3 =>
            \A k \in 3..Len(list[j]) : \A m \in 1..Len(list[i]) :
                ~paths_intersect_path(list[j][k], list[i][m])

\* C20: no leg of a routed hallway intersects a segment of a hallway created
\* earlier in the run (the main loop's list and self.hallways are both in
\* creation order)
C20_LegsAvoidEarlierHallways ==
    LegsAvoidEarlier(loop.hallways) /\ LegsAvoidEarlier(hallways)

\* C21: a connection attempt that fails (the adjacent attempt returning None,
\* a candidate of the search rejected by validation, the search returning
\* None) changes no grid tile, no connections set and no hallway list; the
\* grid changes only in a step whose route had every leg validated.
C21_FailedAttemptChangesNothing ==
    [][/\ pc' # "connected" => UNCHANGED <<grid, rooms, hallways>>
       /\ (grid' # grid /\ search'.phase = "search")
             => route_success(search'.last.checks)]_vars

\* a candidate was rejected after its first leg had validated
C21_Witness ==
    /\ pc = "search_loop"
    /\ Len(search.last.checks) = 2
    /\ search.last.checks[1]
    /\ ~search.last.checks[2]
    /\ \A y \in 0..(height - 1), x \in 0..(width - 1) :
          IsFloor(grid, x, y) <=> \E k \in 1..2 : contains_point(rooms[k], <<x, y>>, 0)

\* an attempt of the search has been made and its locals are still held
AttemptMade ==
    /\ pc \in {"search_loop", "connected"}
    /\ search.phase = "search"
    /\ search.last # NoAttempt

\* C22 as stated: in maze mode the exit direction drawn for a room in an outer
\* iteration of the search is never the direction opposite to that room's
\* furthest edge direction.
C22_OppositeOfFurthestIsNeverDrawn ==
    (maze /\ AttemptMade)
       => /\ search.last.direction_r1 # get_opposite(search.scan_r1)
          /\ search.last.direction_r2 # get_opposite(search.scan_r2)

\* C22, amended: in maze mode the exit direction drawn for a room in an outer
\* iteration of the search is never that room's furthest edge direction
\* itself; the direction opposite to it is one of the three that are drawn.
C22_FurthestIsNeverDrawn ==
    (maze /\ AttemptMade)
       => /\ search.last.direction_r1 # search.scan_r1
          /\ search.last.direction_r2 # search.scan_r2
          /\ search.last.direction_r1 \in Directions
          /\ search.last.direction_r2 \in Directions

\* the first room was left by the edge opposite to its furthest edge, and
\* the attempt produced a hallway
C22_Witness ==
    /\ maze
    /\ pc = "connected"
    /\ search.phase = "search"
    /\ search.last.direction_r1 = get_opposite(search.scan_r1)

\* the direction, first in declared order, of an edge of the room that holds
\* a tile at minimal Manhattan distance to the target
NearestEdge(room, target) ==
    LET dist(d) == LET cells == SeqRange(edge_in_direction(room, d))
                   IN CHOOSE m \in {manhattan_distance(c, target) : c \in cells} :
                         \A c \in cells : m <= manhattan_distance(c, target)
        k == CHOOSE i \in 1..Len(Direction) :
                /\ \A j \in 1..Len(Direction) : dist(Direction[i]) <= dist(Direction[j])
                /\ \A j \in 1..(i - 1) : dist(Direction[j]) > dist(Direction[i])
    IN Direction[k]

\* C23: in straight mode the exit direction of each room is the direction of
\* the edge holding the room's edge tile nearest to the other room's center
\* (first minimum in the order UP, DOWN, LEFT, RIGHT); a direction is always
\* determined for both rooms, and every iteration of the search uses it.
C23_StraightExitsAreNearestEdges ==
    ~maze =>
       /\ error # "UnboundLocalError"
       /\ search.phase = "search" =>
             /\ search.scan_r1 = NearestEdge(rooms[1], center(rooms[2]))
             /\ search.scan_r2 = NearestEdge(rooms[2], center(rooms[1]))
       /\ AttemptMade =>
             /\ search.last.direction_r1 = search.scan_r1
             /\ search.last.direction_r2 = search.scan_r2

\* the search has returned a hallway
RoutedHallway ==
    /\ pc = "connected"
    /\ search.phase = "search"

\* C24: in every L-shaped hallway returned by a routed connection, the first
\* leg (the third segment, which leaves the first room's second departure
\* tile) does not run in the direction opposite to the first room's exit
\* direction.
C24_FirstLegNotAgainstExit ==
    (RoutedHallway /\ Len(search.last.segments) = 4)
       => get_direction(search.last.segments[3])
             # get_opposite(search.last.direction_r1)

\* an L-shaped hallway was returned whose first leg is horizontal although
\* the first room was left upwards or downwards
C24_Witness ==
    /\ RoutedHallway
    /\ Len(search.last.segments) = 4
    /\ search.last.direction_r1 \in {"up", "down"}
    /\ get_direction(search.last.segments[3]) \in {"left", "right"}

\* the tiles of the bounding box of a path
BoundingBox(path) ==
    (Min(path.x1, path.x2)..Max(path.x1, path.x2))
       \X (Min(path.y1, path.y2)..Max(path.y1, path.y2))

\* the tiles of the half-open rectangle of a room, grown by buffer on every
\* side
ExpandedRoom(room, buffer) ==
    ((room.x1 - buffer)..(room.x2 + buffer - 1))
       \X ((room.y1 - buffer)..(room.y2 + buffer - 1))

ClearOfRooms(path, buffer, rooms_to_ignore) ==
    \A k \in 1..Len(rooms) :
       rooms[k] \notin rooms_to_ignore
          => BoundingBox(path) \cap ExpandedRoom(rooms[k], buffer) = {}

ClearOfHallways(path) ==
    \A i \in 1..Len(hallways) : \A j \in 1..Len(hallways[i]) :
       get_line_points(path) \cap get_line_points(hallways[i][j]) = {}

WithinBounds(path, ignore_bounds) ==
    \/ ignore_bounds
    \/ /\ {path.x1, path.x2} \subseteq 1..(width - 2)
       /\ {path.y1, path.y2} \subseteq 1..(height - 2)

\* C25: can_connect answers true iff (a) the bounding box of the path
\* overlaps no room outside the ignore-list, the room's half-open rectangle
\* being grown by buffer on every side, (b) the path intersects no segment of
\* a recorded hallway, and (c) bounds-checking is disabled or the four end
\* point coordinates lie in 1..width-2 and 1..height-2.
C25_CanConnectIffThreeChecks ==
    request.op = "can_connect" =>
       (request.result <=>
           /\ ClearOfRooms(request.path, request.buffer, request.rooms_to_ignore)
           /\ ClearOfHallways(request.path)
           /\ WithinBounds(request.path, request.ignore_bounds))

\* a path rejected by the hallway check alone
C25_Witness ==
    /\ request.op = "can_connect"
    /\ ~request.result
    /\ ClearOfRooms(request.path, request.buffer, request.rooms_to_ignore)
    /\ ~ClearOfHallways(request.path)
    /\ WithinBounds(request.path, request.ignore_bounds)
    /\ ~request.ignore_bounds
    /\ request.rooms_to_ignore # {}

\* C26: for two axis-aligned paths, one-cell paths and collinear overlapping
\* paths included, paths_intersect_path answers true iff the tile sets given
\* by their line points have a tile in common.
C26_IntersectIffCommonTile ==
    request.op = "paths_intersect_path" =>
       (request.result <=>
           get_line_points(request.self) \cap get_line_points(request.other) # {})

\* two collinear paths of more than one tile that overlap without sharing an
\* end point
C26_Witness ==
    /\ request.op = "paths_intersect_path"
    /\ request.result
    /\ request.self.y1 = request.self.y2
    /\ request.other.y1 = request.other.y2
    /\ request.self.y1 = request.other.y1
    /\ ~is_one_cell_path(request.self)
    /\ ~is_one_cell_path(request.other)
    /\ {request.self.x1, request.self.x2}
          \cap {request.other.x1, request.other.x2} = {}

\* the room whose closure _place_missing_hallways starts from: the first room
\* of the list tagged Entrance
EntranceRoom ==
    rooms[CHOOSE k \in 1..Len(rooms) :
             /\ rooms[k].room_type = "ENTRANCE"
             /\ \A j \in 1..(k - 1) : rooms[j].room_type # "ENTRANCE"]

\* C27: during the repair pass, after every successful repair step the
\* reachable set that the pass maintains by uniting the old set with the
\* closure of the newly connected room equals the closure of the Entrance
\* room over the connections of all rooms.
C27_IncrementalSetIsEntranceClosure ==
    (pc = "repair_loop" /\ repair.last = "hallway")
       => repair.connected_ids
             = get_connected_room_ids_by_extension(EntranceRoom, rooms)

\* a repair step connected a room and left another room unreachable
C27_Witness ==
    /\ pc = "repair_loop"
    /\ repair.last = "hallway"
    /\ repair.connected_ids # RoomIds(rooms)
    /\ Cardinality(repair.connected_ids) >= 2

FloorTiles(g) ==
    {t \in (0..(GridWidth(g) - 1)) \X (0..(GridHeight(g) - 1)) :
        IsFloor(g, t[1], t[2])}

\* the floor tiles joined to a tile of S by a run of floor tiles, each next to
\* the one before in one of the four directions
RECURSIVE FloorReachFrom(_, _, _)
FloorReachFrom(floor, S, frontier) ==
    LET around == UNION {{move_cell_in_direction(u, d) : d \in Directions}
                           : u \in frontier}
        next == (around \cap floor) \ S
    IN IF next = {} THEN S ELSE FloorReachFrom(floor, S \cup next, next)

FloorReach(floor, S) == FloorReachFrom(floor, S, S)

RoomTiles(room) ==
    (room.x1..(room.x2 - 1)) \X (room.y1..(room.y2 - 1))

\* C28: at every point of generation, for every two distinct rooms i and j
\* with j's id in i's connections set, the grid holds a 4-connected run of
\* floor tiles from a tile of room i to a tile of room j.
C28_ConnectionsAreBackedByFloor ==
    \A i \in 1..Len(rooms) : \A j \in 1..Len(rooms) :
       (i # j /\ rooms[j].id \in rooms[i].connections)
          => FloorReach(FloorTiles(grid), RoomTiles(rooms[i]) \cap FloorTiles(grid))
                \cap RoomTiles(rooms[j]) # {}

\* two rooms are connected through a routed hallway of four segments
C28_Witness ==
    /\ \E i \in 1..Len(rooms) : \E j \in 1..Len(rooms) :
          i # j /\ rooms[j].id \in rooms[i].connections
    /\ \E k \in 1..Len(loop.hallways) : Len(loop.hallways[k]) = 4

\* the departure points of the last attempt
DepartureA ==
    move_cell_in_direction(search.last.key[1], search.last.direction_r1)

DepartureB ==
    move_cell_in_direction(search.last.key[2], search.last.direction_r2)

\* C29: a routed connection never returns a 1-segment hallway: the single
\* straight path between the two departure points is always rejected by the
\* validation, and every hallway the search returns is the two 1-tile stubs
\* on the departure points followed by one or two legs.
C29_RoutedHallwayHasStubsAndLegs ==
    /\ (AttemptMade /\ Len(search.last.segments) = 1)
          => ~route_success(search.last.checks)
    /\ RoutedHallway
          => /\ Len(search.last.segments) \in {3, 4}
             /\ search.last.segments[1]
                   = Path(DepartureA[1], DepartureA[2], DepartureA[1], DepartureA[2])
             /\ search.last.segments[2]
                   = Path(DepartureB[1], DepartureB[2], DepartureB[1], DepartureB[2])

\* the departure points shared a coordinate and the single straight path
\* between them was rejected
C29_Witness ==
    /\ AttemptMade
    /\ Len(search.last.segments) = 1
    /\ search.last.segments[1]
          = Path(DepartureA[1], DepartureA[2], DepartureB[1], DepartureB[2])
    /\ ~search.last.checks[1]

\* the main connection loop has been entered
LoopEntered == pc \notin {"place_rooms", "place_hallways"} /\ loop # NoLoop

====
